---- MODULE Spec2Model ----
(***************************************************************************)
(* Plink audio engine (src/dist/plink.js, the concatenation of audio.js,   *)
(* input.js, touch.js, ui.js, setup.js and state.js).                      *)
(*                                                                         *)
(* AudioManager: sound library, play/stopLoop, speak and                   *)
(* speakWithSoundEffects; AudioSequence: the cue queue driven by           *)
(* completion callbacks and spacing timers.                                *)
(*                                                                         *)
(* JavaScript strings are TLA+ strings; a character is SubSeq(s, i, i).    *)
(* Times are milliseconds.                                                 *)
(***************************************************************************)
EXTENDS Integers, Sequences, FiniteSets, TLC

VARIABLES
    soundLibrary,   \* AudioManager.soundLibrary: name -> buffer id
    loops,          \* AudioManager.loops: sequence of loop entries
    managerQueue,   \* AudioManager.queue: index into sequences, 0 for undefined
    sequences,      \* every AudioSequence object created so far
    loads,          \* addSound calls in flight
    nextBuffer,     \* identity of the next AudioBuffer the decoder creates
    sources,        \* number of AudioBufferSourceNodes created so far
    connections,    \* connections[h]: the connect() calls made for source h, in order
    log,            \* log[q]: the 'speak' and 'soundEffect' events raised for sequence q
                    \* (log[0]: for direct calls) and the callbacks of q that fired
    thrown,         \* error raised by the most recent step ("none" if it returned)
    returned,       \* buffer returned by the last completed addSound, per name
    now,            \* wall clock, ms
    ops,            \* number of API calls made so far
    input,          \* narration under test in SpecParse
    stopCalls,      \* the source nodes stop() was called on
    bufferFile,     \* bufferFile[b]: the file AudioBuffer b was decoded from
    controllerInputs, \* details of the 'controllerInput' events raised on document
    gameState,      \* window.GameState.state
    setupTimers,    \* the one-second timers of the lifecycle not yet fired: when each
                    \* is due, in the order they were set
    setupsPending,  \* the gameSetup calls whose promise is not settled yet
    calls,          \* the calls to the game's code, the inputs and the settled
                    \* gameSetup promises, in the order they happened
    maze,           \* window.maze of the game: <<>> while undefined, else <<the Maze>>
    treasuresFound, \* window.treasuresFound: <<>> while undefined, else <<the count>>
    maxElements,    \* UserInterface.maxElements
    uiLog,          \* the children of the UserInterface element, oldest first
    shownAll,       \* the element passed to showText at each of its calls, in order
    clears,         \* the calls that emptied the element: by which function, and
                    \* after how many showText calls
    touches,        \* GestureTracker.touches: the fingers down, in the order they came down
    gestureTimers,  \* the setTimeout timers of GestureTracker.timers not yet fired or
                    \* cleared, each with the touch sequence that armed it
    fingersInThisGesture, \* GestureTracker.fingersInThisGesture
    couldBeTap,     \* GestureTracker.couldBeTap
    couldBeLongPress, \* GestureTracker.couldBeLongPress
    couldBeSwipe,   \* GestureTracker.couldBeSwipe
    lastGesture,    \* GestureTracker.lastGesture: the latest 'gesture' event dispatched
                    \* on the canvas, with the touch sequence it was raised in
    fingerAt,       \* where each finger that is down is now
    touchSequence,  \* the touch sequence under way: its number, the fingers that
                    \* took part, whether its tap timer has fired, whether a finger
                    \* went further than the tap travel and the gestures raised so
                    \* far; between sequences only the number
    touchMoves      \* the touchmove events of the touch sequence under way

inputVars == <<controllerInputs>>
lifecycleVars == <<gameState, setupTimers, setupsPending, calls, maze,
                   treasuresFound>>
uiVars == <<maxElements, uiLog, shownAll, clears>>
trackerVars == <<touches, gestureTimers, fingersInThisGesture, couldBeTap,
                 couldBeLongPress, couldBeSwipe, lastGesture>>
touchVars == <<trackerVars, fingerAt, touchSequence, touchMoves>>

\* the state outside the AudioManager and its sequences
nonAudioVars == <<inputVars, lifecycleVars, uiVars, touchVars>>

vars == <<soundLibrary, loops, managerQueue, sequences, loads, nextBuffer,
          sources, connections, log, thrown, returned, now, ops, input, stopCalls, bufferFile,
          nonAudioVars>>

----------------------------------------------------------------------------
(* Bounds of the model *)

MaxOps == 4
MaxTime == 200
TickMs == 50
MaxTokens == 3

(* Program constants *)

DefaultSpacing == 100

STATE_START == 0
STATE_REQUEST_INPUT == 200
STATE_RECEIVED_INPUT == 250
STATE_GAME_SETUP == 300
STATE_GAME_SETUP_COMPLETED == 350
STATE_GAME_INTRO_STARTED == 400
STATE_GAME_INTRO_COMPLETE == 450
STATE_GAME_PLAYING == 500

\* constructor(element, maxElements = 18)
DefaultMaxElements == 18

----------------------------------------------------------------------------
(* The objects of the page other than the AudioManager, as constructed *)

\* new InputManager(domElement): no event raised yet
InputIdle == controllerInputs = <<>>

\* new GameState(STATE_START); no timer, no call to the game's code yet
LifecycleIdle ==
    /\ gameState = STATE_START
    /\ setupTimers = <<>>
    /\ setupsPending = {}
    /\ calls = <<>>
    /\ maze = <<>>
    /\ treasuresFound = <<>>

\* new UserInterface(element), then initializeUI()
UiIdle ==
    /\ maxElements = DefaultMaxElements
    /\ uiLog = <<>>
    /\ shownAll = <<>>
    /\ clears = <<>>

\* touch sequence number n with no finger down yet
NoTouchSequence(n) ==
    [n |-> n, fingers |-> {}, tapTimerFired |-> FALSE, travelled |-> FALSE,
     gestures |-> <<>>]

\* new GestureTracker(domElement), made by the InputManager: no finger down
TouchIdle ==
    /\ touches = <<>>
    /\ gestureTimers = {}
    /\ fingersInThisGesture = -1
    /\ couldBeTap = FALSE
    /\ couldBeLongPress = FALSE
    /\ couldBeSwipe = FALSE
    /\ lastGesture = [detail |-> "null", during |-> NoTouchSequence(0)]
    /\ fingerAt = <<>>
    /\ touchSequence = NoTouchSequence(0)
    /\ touchMoves = 0

----------------------------------------------------------------------------
(* String helpers: String.prototype.split(' ') and String.prototype.match *)

SetMin(S) == CHOOSE x \in S : \A y \in S : x <= y
SetMax(S) == CHOOSE x \in S : \A y \in S : x >= y

\* the positions at which pat occurs in s
Occurrences(s, pat) ==
    {i \in 1..(Len(s) - Len(pat) + 1) : SubSeq(s, i, i + Len(pat) - 1) = pat}

\* s.split(separator) for a separator of one character: the pieces between
\* the separators, empty pieces kept
SplitOn(s, separator) ==
    LET \* where the separators are, in order
        at == SelectSeq([i \in 1..Len(s) |-> i],
                        LAMBDA i : SubSeq(s, i, i) = separator)
        \* the k-th of them; 0 and Len(s) + 1 bound the string
        nth(k) == IF k = 0 THEN 0
                  ELSE IF k > Len(at) THEN Len(s) + 1
                  ELSE at[k]
    IN  [k \in 1..(Len(at) + 1) |-> SubSeq(s, nth(k - 1) + 1, nth(k) - 1)]

\* formattedText.split(' ')
Split(s) == SplitOn(s, " ")

\* the line terminators the '.' of a regular expression does not match
LineTerminators == {"\n", "\r"}

\* token.match('{{(.*)}}'): the pattern is unanchored, the group is greedy and
\* '.' matches no line terminator. The match starts at the leftmost "{{" that
\* some "}}" follows on the same line, and the group runs to the last such "}}".
MatchCue(token) ==
    LET closes(i) ==
            {j \in Occurrences(token, "}}") :
                /\ j >= i + 2
                /\ \A k \in (i + 2)..(j - 1) :
                      SubSeq(token, k, k) \notin LineTerminators}
        opens == {i \in Occurrences(token, "{{") : closes(i) # {}}
    IN  IF opens = {} THEN [matched |-> FALSE, name |-> ""]
        ELSE LET i == SetMin(opens)
             IN  [matched |-> TRUE,
                  name |-> SubSeq(token, i + 2, SetMax(closes(i)) - 1)]

----------------------------------------------------------------------------
(* AudioSequence.add and the parsing loop of speakWithSoundEffects *)

\* queue.push({ item, mediaType, prefs }); prefs is written as the
\* voicePreference the object given holds, "undefined" when none was given
add(queue, itemToAdd, audioType, prefs) ==
    Append(queue, [item |-> itemToAdd, mediaType |-> audioType, prefs |-> prefs])

\* one pass of the loop body, for the token tokens[i]: st holds buffer and
\* queue as the pass finds them, the result as it leaves them
ParseStep(st, token, voicePreference) ==
    LET m == MatchCue(token)
    IN  IF m.matched
        THEN LET flushed == IF Len(st.buffer) > 0
                            THEN add(st.queue, st.buffer, "text", voicePreference)
                            ELSE st.queue
             IN  [buffer |-> "",
                  queue |-> add(flushed, m.name, "sound", "undefined")]
        ELSE [st EXCEPT !.buffer = @ \o " " \o token]

\* the passes for tokens[lo..hi], one after the other in the order of the
\* tokens: half is buffer and queue after the passes of the first half of the
\* range, end is what the passes of the second half make of them
RECURSIVE ParseRange(_, _, _, _, _)
ParseRange(tokens, lo, hi, st, voicePreference) ==
    IF lo > hi THEN st
    ELSE IF lo = hi THEN ParseStep(st, tokens[lo], voicePreference)
    ELSE CHOOSE end \in
             {ParseRange(tokens, ((lo + hi) \div 2) + 1, hi, half, voicePreference) :
                 half \in {ParseRange(tokens, lo, (lo + hi) \div 2, st,
                                      voicePreference)}} :
             TRUE

\* after the loop: anything left in the buffer is added as a last text item
FlushBuffer(st, voicePreference) ==
    IF Len(st.buffer) > 0
    THEN add(st.queue, st.buffer, "text", voicePreference)
    ELSE st.queue

\* the loop from pass i on, entered with this buffer and queue, and the flush
\* of the buffer that follows the loop
ParseLoop(tokens, i, buffer, queue, voicePreference) ==
    FlushBuffer(ParseRange(tokens, i, Len(tokens),
                           [buffer |-> buffer, queue |-> queue], voicePreference),
                voicePreference)

\* the items speakWithSoundEffects puts on its new queue
ParseItems(formattedText, voicePreference) ==
    ParseLoop(Split(formattedText), 1, "", <<>>, voicePreference)

----------------------------------------------------------------------------
(* Inputs *)

SoundNames == {"win", "coin"}
PlayNames == {"win", "missing", "toString"}
FileNames == {"sounds/win.wav"}
SpeakTexts == {"hello"}
Narrations == {"You win {{win}} great job",
               "{{coin}} You found a treasure."}

\* whitespace-separated pieces a narration under test is assembled from
TokenVocabulary ==
    {"", "go", "{{a}}", "{{b}}", "{{a", "x{{a}}.", "{{a}}{{b}}", "{{a\nb}}"}

RECURSIVE Join(_)
Join(tokens) ==
    IF Len(tokens) = 0 THEN ""
    ELSE IF Len(tokens) = 1 THEN tokens[1]
    ELSE tokens[1] \o " " \o Join(Tail(tokens))

TokenSeqs == UNION {[1..n -> TokenVocabulary] : n \in 1..MaxTokens}

ParseInputs == {Join(ts) : ts \in TokenSeqs} \cup {"You win {{win}} great job"}

----------------------------------------------------------------------------
(* Events *)

\* CustomEvent('speak', { detail: text })
SpeakEvent(text) ==
    [kind |-> "speak", name |-> text,
     panValue |-> 0, volume |-> 1, loop |-> FALSE, t |-> now]

\* (mutant) a soundEffect event that reports the default options
SoundEffectEventDefaults(name, panValue, volume, loop) ==
    [kind |-> "soundEffect", name |-> name,
     panValue |-> 0, volume |-> 1, loop |-> FALSE, t |-> now]

\* CustomEvent('soundEffect', { detail: { name, panValue, volume, loop } })
SoundEffectEvent(name, panValue, volume, loop) ==
    [kind |-> "soundEffect", name |-> name,
     panValue |-> panValue, volume |-> volume, loop |-> loop, t |-> now]

\* the onend / onended callback registered by a sequence fires
EndedEvent ==
    [kind |-> "ended", name |-> "",
     panValue |-> 0, volume |-> 1, loop |-> FALSE, t |-> now]

----------------------------------------------------------------------------
(* The part of the state a call chain reads and writes, passed along the    *)
(* chain; thrown is the error the chain ended with, emitted the events the  *)
(* chain has dispatched on window and document, in order.                   *)

Cur ==
    [sequences |-> sequences, log |-> log, sources |-> sources,
     connections |-> connections, loops |-> loops,
     thrown |-> "none", emitted |-> <<>>]

Commit(m) ==
    /\ sequences' = m.sequences
    /\ log' = m.log
    /\ sources' = m.sources
    /\ connections' = m.connections
    /\ loops' = m.loops
    /\ thrown' = m.thrown

----------------------------------------------------------------------------
(* AudioManager *)

\* property names every plain object inherits from Object.prototype
ObjectPrototypeNames ==
    {"constructor", "hasOwnProperty", "isPrototypeOf", "propertyIsEnumerable",
     "toLocaleString", "toString", "valueOf", "__proto__", "__defineGetter__",
     "__defineSetter__", "__lookupGetter__", "__lookupSetter__"}

\* what a plain object gives for an inherited name: the member of
\* Object.prototype, a function but for __proto__, the prototype itself
InheritedMember(name) ==
    IF name = "__proto__" THEN "[object Object.prototype]"
    ELSE IF name = "constructor" THEN "[function Object]"
    ELSE "[function " \o name \o "]"

\* name in this.soundLibrary: soundLibrary is a plain object ({}), so the test
\* holds for the registered names and for the inherited ones
InLibrary(name) == name \in DOMAIN soundLibrary \/ name \in ObjectPrototypeNames

\* this.soundLibrary[name] is an AudioBuffer: a registered name (the names
\* registered here are never inherited ones)
HoldsBuffer(name) == name \in DOMAIN soundLibrary

\* play of an inherited name: createBufferSource() gives a new source, then
\* sampleSource.buffer = this.soundLibrary[name] throws a TypeError, the value
\* being no AudioBuffer; the source is left unconnected
playInherited(m) ==
    [m EXCEPT !.sources = @ + 1,
              !.connections = Append(@, <<>>),
              !.thrown = "TypeError"]

\* (mutant) a name already registered keeps its old buffer
RegisterKeepsFirst(lib, name, audioBuffer) ==
    [n \in (DOMAIN lib) \cup {name} |->
        IF n \in DOMAIN lib THEN lib[n] ELSE audioBuffer]

\* (mutant) registering a buffer drops the other names
RegisterAlone(lib, name, audioBuffer) == [n \in {name} |-> audioBuffer]

\* this.soundLibrary[name] = audioBuffer
Register(lib, name, audioBuffer) ==
    [n \in (DOMAIN lib) \cup {name} |-> IF n = name THEN audioBuffer ELSE lib[n]]

\* an AudioNode: the buffer source h, a GainNode with its gain, a
\* StereoPannerNode with its pan, or context.destination
AudioNode(type, value) == [type |-> type, value |-> value]

\* one connect() call
Connection(from, to) == [from |-> from, to |-> to]

\* (mutant) the chain with the pan stage ahead of the gain stage
connectPanFirst(h, volume, panValue) ==
    LET sampleSource == AudioNode("source", h)
        pannerNode == AudioNode("pan", panValue)
        volumeNode == AudioNode("gain", volume)
        afterPan == IF panValue # 0 THEN pannerNode ELSE sampleSource
        afterGain == IF volume # 1 THEN volumeNode ELSE afterPan
    IN  (IF panValue # 0 THEN <<Connection(sampleSource, pannerNode)>> ELSE <<>>)
        \o (IF volume # 1 THEN <<Connection(afterPan, volumeNode)>> ELSE <<>>)
        \o <<Connection(afterGain, AudioNode("destination", 0))>>

\* the connect() calls of play for source h: currentNode starts as the source,
\* moves to the GainNode made when volume != 1, then to the StereoPannerNode
\* made when panValue != 0, and is connected to context.destination
connect(h, volume, panValue) ==
    LET sampleSource == AudioNode("source", h)
        volumeNode == AudioNode("gain", volume)
        pannerNode == AudioNode("pan", panValue)
        afterGain == IF volume # 1 THEN volumeNode ELSE sampleSource
        afterPan == IF panValue # 0 THEN pannerNode ELSE afterGain
    IN  (IF volume # 1 THEN <<Connection(sampleSource, volumeNode)>> ELSE <<>>)
        \o (IF panValue # 0 THEN <<Connection(afterGain, pannerNode)>> ELSE <<>>)
        \o <<Connection(afterPan, AudioNode("destination", 0))>>

\* { callback = null, volume = 1, panValue = 0, loop = false, offset = 0 } = {}
DefaultOptions == [volume |-> 1, panValue |-> 0, loop |-> FALSE]

\* (mutant) play that tracks every source, looping or not
playAlwaysRegisters(m, name, options, q) ==
    IF ~InLibrary(name)
    THEN [m EXCEPT !.thrown = "Sound not found"]
    ELSE IF ~HoldsBuffer(name)
    THEN playInherited(m)
    ELSE [m EXCEPT
            !.sources = @ + 1,
            !.loops = Append(@, [soundName |-> name,
                                 loopHandle |-> m.sources + 1,
                                 isPlaying |-> TRUE]),
            !.connections = Append(@, connect(m.sources + 1, options.volume,
                                              options.panValue)),
            !.log[q] = Append(@, SoundEffectEvent(name, options.panValue,
                                                  options.volume, options.loop)),
            !.emitted = Append(@, SoundEffectEvent(name, options.panValue,
                                                   options.volume, options.loop))]

\* AudioManager.play(name, { callback, volume, panValue, loop, offset }),
\* called on behalf of sequence q (0: a direct call)
play(m, name, options, q) ==
    IF ~InLibrary(name)
    THEN [m EXCEPT !.thrown = "Sound not found"]
    ELSE IF ~HoldsBuffer(name)
    THEN playInherited(m)
    ELSE [m EXCEPT
            !.sources = @ + 1,
            !.loops = IF options.loop
                      THEN Append(@, [soundName |-> name,
                                      loopHandle |-> m.sources + 1,
                                      isPlaying |-> TRUE])
                      ELSE @,
            !.connections = Append(@, connect(m.sources + 1, options.volume,
                                              options.panValue)),
            !.log[q] = Append(@, SoundEffectEvent(name, options.panValue,
                                                  options.volume, options.loop)),
            !.emitted = Append(@, SoundEffectEvent(name, options.panValue,
                                                   options.volume, options.loop))]

\* AudioManager.speak(text, { callback, voicePreference })
speak(m, text, q) ==
    [m EXCEPT !.log[q] = Append(@, SpeakEvent(text)),
              !.emitted = Append(@, SpeakEvent(text))]

\* (mutant) stopLoop that drops every entry, whatever its name
stopLoopIgnoresName(ls, name) == SubSeq(ls, 1, 0)

\* (mutant) stopLoop that drops the first entry of that name only
stopLoopFirstOnly(ls, name) ==
    LET matching == {i \in 1..Len(ls) : ls[i].soundName = name}
    IN  IF matching = {} THEN ls
        ELSE SubSeq(ls, 1, SetMin(matching) - 1)
                \o SubSeq(ls, SetMin(matching) + 1, Len(ls))

\* (mutant) stopLoop that stops the matching entries and keeps them registered
stopLoopKeepsStopped(ls, name) ==
    [i \in 1..Len(ls) |->
        IF ls[i].soundName = name /\ ls[i].isPlaying
        THEN [ls[i] EXCEPT !.isPlaying = FALSE]
        ELSE ls[i]]

\* AudioManager.stopLoop(name): stop the matching entries, then drop stopped ones
stopLoop(ls, name) ==
    LET stopped == [i \in 1..Len(ls) |->
                       IF ls[i].soundName = name /\ ls[i].isPlaying
                       THEN [ls[i] EXCEPT !.isPlaying = FALSE]
                       ELSE ls[i]]
    IN  SelectSeq(stopped, LAMBDA item : item.isPlaying)

\* the loopHandle.stop() calls stopLoop(name) makes
stopLoopHandles(ls, name) ==
    {ls[i].loopHandle : i \in {j \in 1..Len(ls) :
                                  ls[j].soundName = name /\ ls[j].isPlaying}}

----------------------------------------------------------------------------
(* AudioSequence *)

\* new AudioSequence(audioManager, spacing = 100)
NewSequence ==
    [queue |-> <<>>, spacing |-> DefaultSpacing, playing |-> FALSE,
     isPlaying |-> FALSE,   \* undefined until start(); read only as a truth value
     pending |-> 0,         \* completion callbacks registered and not yet fired
     timers |-> <<>>,       \* deadlines of the sleep() timers not yet fired
     items |-> <<>>,        \* the items as built by the parser
     handedOut |-> FALSE,   \* speakWithSoundEffects returned this object
     cancelCalled |-> FALSE, \* the holder of the object has called cancel()
     eventsAtCancel |-> 0]  \* Len(log[q]) at that call

hasNext(s) == Len(s.queue) > 0

\* (mutant) cancel that clears the flag and keeps the items
cancelKeepsItems(s) == [s EXCEPT !.isPlaying = FALSE]

\* AudioSequence.cancel()
cancel(s) == [s EXCEPT !.isPlaying = FALSE, !.queue = <<>>]

\* the TypeError of reading voicePreference of a text item added without prefs
NoPrefsError ==
    "TypeError: Cannot read properties of undefined (reading 'voicePreference')"

\* (mutant) doNext that reads the head of the queue without removing it
doNextNoShift(m, q) ==
    LET s == m.sequences[q]
    IN  IF hasNext(s) /\ s.isPlaying
        THEN LET firstItem == Head(s.queue)
                 r == IF firstItem.mediaType = "text"
                      THEN (IF firstItem.prefs = "undefined"
                            THEN [m EXCEPT !.thrown = NoPrefsError]
                            ELSE speak(m, firstItem.item, q))
                      ELSE play(m, firstItem.item, DefaultOptions, q)
             IN  IF r.thrown = "none"
                 THEN [r EXCEPT !.sequences[q].pending = @ + 1]
                 ELSE r
        ELSE [m EXCEPT !.thrown = "this.shutdown is not a function"]

\* AudioSequence.doNext() of sequence q
doNext(m, q) ==
    LET s == m.sequences[q]
    IN  IF hasNext(s) /\ s.isPlaying
        THEN LET firstItem == Head(s.queue)
                 shifted == [m EXCEPT !.sequences[q].queue = Tail(@)]
                 r == IF firstItem.mediaType = "text"
                      THEN \* firstItem.prefs.voicePreference is read first
                           (IF firstItem.prefs = "undefined"
                            THEN [shifted EXCEPT !.thrown = NoPrefsError]
                            ELSE speak(shifted, firstItem.item, q))
                      ELSE IF firstItem.mediaType = "sound"
                      THEN play(shifted, firstItem.item, DefaultOptions, q)
                      ELSE [shifted EXCEPT !.thrown = "invalid media type"]
             IN  \* the callback is registered when speak / play did not throw
                 IF r.thrown = "none"
                 THEN [r EXCEPT !.sequences[q].pending = @ + 1]
                 ELSE r
        ELSE \* this.shutdown() is not defined anywhere: a TypeError
             [m EXCEPT !.thrown = "this.shutdown is not a function"]

\* AudioSequence.start()
start(m, q) == doNext([m EXCEPT !.sequences[q].isPlaying = TRUE], q)

\* (mutant) callback that goes on to the next item without sleeping
callbackNoSleep(m, q) ==
    IF ~hasNext(m.sequences[q])
    THEN [m EXCEPT !.sequences[q] = cancel(@)]
    ELSE doNext(m, q)

\* (mutant) callback that leaves the sequence marked playing at its end
callbackNoCancel(m, q) ==
    IF ~hasNext(m.sequences[q])
    THEN m
    ELSE [m EXCEPT !.sequences[q].timers = Append(@, now + m.sequences[q].spacing)]

\* AudioSequence.callback() of sequence q, run when its speech or sound has ended
callback(m, q) ==
    IF ~hasNext(m.sequences[q])
    THEN [m EXCEPT !.sequences[q] = cancel(@)]
    ELSE \* this.sleep(this.spacing).then(() => this.doNext())
         [m EXCEPT !.sequences[q].timers = Append(@, now + m.sequences[q].spacing)]

\* AudioManager.speakWithSoundEffects(formattedText): the new sequence is q
speakWithSoundEffects(m, formattedText, q) ==
    LET queue == ParseItems(formattedText, "null")
        built == [NewSequence EXCEPT !.queue = queue, !.items = queue]
        r == start([m EXCEPT !.sequences = Append(@, built),
                             !.log = [o \in 0..q |-> IF o < q THEN @[o] ELSE <<>>]], q)
    IN  \* this.queue = queue; return queue -- reached when start() did not throw
        IF r.thrown = "none"
        THEN [r EXCEPT !.sequences[q].handedOut = TRUE]
        ELSE r

----------------------------------------------------------------------------
(* Initial state: the AudioManager just constructed *)

NoLibrary == [n \in {} |-> 0]

Init ==
    /\ soundLibrary = NoLibrary
    /\ loops = <<>>
    /\ managerQueue = 0
    /\ sequences = <<>>
    /\ loads = <<>>
    /\ nextBuffer = 1
    /\ sources = 0
    /\ connections = <<>>
    /\ log = [o \in {0} |-> <<>>]
    /\ thrown = "none"
    /\ returned = NoLibrary
    /\ now = 0
    /\ ops = 0
    /\ input = ""
    /\ stopCalls = {}
    /\ bufferFile = <<>>
    /\ InputIdle
    /\ LifecycleIdle
    /\ UiIdle
    /\ TouchIdle

----------------------------------------------------------------------------
(* API calls *)

\* an addSound(name, fileName) call at its first await; startedAt is the number
\* of the next buffer to be decoded at the time of the call; query and results
\* are used by addFreesound only; owner is the gameSetup call that awaits it,
\* 0 for any other caller
NewLoad(name, fileName) ==
    [name |-> name, stage |-> "fetch", file |-> fileName, query |-> "",
     results |-> <<>>, startedAt |-> nextBuffer, owner |-> 0]

\* addSound(name, fileName) up to its first await
AddSound(name, fileName) ==
    /\ ops < MaxOps
    /\ ops' = ops + 1
    /\ loads' = Append(loads, NewLoad(name, fileName))
    /\ thrown' = "none"
    /\ UNCHANGED <<soundLibrary, loops, managerQueue, sequences, nextBuffer,
                   sources, connections, log, returned, now, input, stopCalls, bufferFile, nonAudioVars>>

PlayWith(name, options) ==
    /\ ops < MaxOps
    /\ ops' = ops + 1
    /\ Commit(play(Cur, name, options, 0))
    /\ UNCHANGED <<soundLibrary, managerQueue, loads, nextBuffer, returned, now,
                   input, stopCalls, bufferFile, nonAudioVars>>

\* play(name, { loop: loop })
Play(name, loop) == PlayWith(name, [DefaultOptions EXCEPT !.loop = loop])

StopLoop(name) ==
    /\ ops < MaxOps
    /\ ops' = ops + 1
    /\ loops' = stopLoop(loops, name)
    /\ stopCalls' = stopCalls \cup stopLoopHandles(loops, name)
    /\ thrown' = "none"
    /\ UNCHANGED <<soundLibrary, managerQueue, sequences, loads, nextBuffer,
                   sources, connections, log, returned, now, input, bufferFile, nonAudioVars>>

Speak(text) ==
    /\ ops < MaxOps
    /\ ops' = ops + 1
    /\ Commit(speak(Cur, text, 0))
    /\ UNCHANGED <<soundLibrary, managerQueue, loads, nextBuffer, returned, now,
                   input, stopCalls, bufferFile, nonAudioVars>>

SpeakWithSoundEffects(formattedText) ==
    /\ ops < MaxOps
    /\ ops' = ops + 1
    /\ LET q == Len(sequences) + 1
           r == speakWithSoundEffects(Cur, formattedText, q)
       IN  /\ Commit(r)
           /\ managerQueue' = IF r.thrown = "none" THEN q ELSE managerQueue
    /\ UNCHANGED <<soundLibrary, loads, nextBuffer, returned, now, input,
                   stopCalls, bufferFile, nonAudioVars>>

\* cancel() called on a sequence the caller holds
Cancel(q) ==
    /\ ops < MaxOps
    /\ sequences[q].handedOut
    /\ ops' = ops + 1
    /\ sequences' = [sequences EXCEPT ![q] =
            [cancel(@) EXCEPT !.cancelCalled = TRUE, !.eventsAtCancel = Len(log[q])]]
    /\ thrown' = "none"
    /\ UNCHANGED <<soundLibrary, loops, managerQueue, loads, nextBuffer, sources,
                   connections,
                   log, returned, now, input, stopCalls, bufferFile, nonAudioVars>>

----------------------------------------------------------------------------
(* Platform steps *)

RemoveAt(seq, i) == SubSeq(seq, 1, i - 1) \o SubSeq(seq, i + 1, Len(seq))

\* an await of addSound before the last one resolves: fetch(fileName), then
\* fileHandle.arrayBuffer(); decodeAudioData is awaited next
LoadAdvance(i) ==
    /\ loads[i].stage \in {"fetch", "arrayBuffer"}
    /\ loads' = [loads EXCEPT ![i].stage = IF @ = "fetch" THEN "arrayBuffer"
                                                         ELSE "decode"]
    /\ thrown' = "none"
    /\ UNCHANGED <<soundLibrary, loops, managerQueue, sequences, nextBuffer,
                   sources, connections, log, returned, now, ops, input, stopCalls, bufferFile, nonAudioVars>>

\* decodeAudioData resolves with a new AudioBuffer: register it and return it
LoadComplete(i) ==
    /\ loads[i].stage = "decode"
    /\ soundLibrary' = Register(soundLibrary, loads[i].name, nextBuffer)
    /\ returned' = [n \in (DOMAIN returned) \cup {loads[i].name} |->
                        IF n = loads[i].name THEN nextBuffer ELSE returned[n]]
    /\ nextBuffer' = nextBuffer + 1
    /\ bufferFile' = Append(bufferFile, loads[i].file)
    /\ loads' = RemoveAt(loads, i)
    /\ thrown' = "none"
    /\ UNCHANGED <<loops, managerQueue, sequences, sources, connections, log, now, ops, input,
                   stopCalls, nonAudioVars>>

\* (mutant) a rejected load that registers a buffer all the same
LoadFailRegisters(i) ==
    /\ soundLibrary' = Register(soundLibrary, loads[i].name, 0)
    /\ loads' = RemoveAt(loads, i)
    /\ thrown' = "load failed"
    /\ UNCHANGED <<loops, managerQueue, sequences, nextBuffer, sources, connections, log,
                   returned, now, ops, input, stopCalls, bufferFile, nonAudioVars>>

\* an await of addSound or addFreesound rejects: the rejection propagates to
\* the caller, the rest of the function does not run
LoadFail(i) ==
    /\ loads' = RemoveAt(loads, i)
    /\ thrown' = "load failed"
    /\ UNCHANGED <<soundLibrary, loops, managerQueue, sequences, nextBuffer,
                   sources, connections, log, returned, now, ops, input, stopCalls, bufferFile, nonAudioVars>>

\* the speech or sound sequence q is waiting for ends: its callback runs
CallbackFires(q) ==
    /\ sequences[q].pending > 0
    /\ Commit(callback([Cur EXCEPT !.sequences[q].pending = @ - 1,
                                   !.log[q] = Append(@, EndedEvent)], q))
    /\ UNCHANGED <<soundLibrary, managerQueue, loads, nextBuffer, returned, now,
                   ops, input, stopCalls, bufferFile, nonAudioVars>>

\* a sleep() timer of sequence q expires: doNext runs
TimerFires(q, i) ==
    /\ sequences[q].timers[i] <= now
    /\ Commit(doNext([Cur EXCEPT !.sequences[q].timers = RemoveAt(@, i)], q))
    /\ UNCHANGED <<soundLibrary, managerQueue, loads, nextBuffer, returned, now,
                   ops, input, stopCalls, bufferFile, nonAudioVars>>

\* time passes
Tick ==
    /\ now + TickMs <= MaxTime
    /\ now' = now + TickMs
    /\ UNCHANGED <<soundLibrary, loops, managerQueue, sequences, loads, nextBuffer,
                   sources, connections, log, thrown, returned, ops, input, stopCalls, bufferFile, nonAudioVars>>

\* time passes while some sleep() timer is still running
TickWhileWaiting ==
    /\ \E q \in 1..Len(sequences) :
          \E i \in 1..Len(sequences[q].timers) : sequences[q].timers[i] > now
    /\ Tick

Next ==
    \/ \E name \in SoundNames, fileName \in FileNames : AddSound(name, fileName)
    \/ \E name \in PlayNames, loop \in BOOLEAN : Play(name, loop)
    \/ \E name \in PlayNames : StopLoop(name)
    \/ \E text \in SpeakTexts : Speak(text)
    \/ \E text \in Narrations : SpeakWithSoundEffects(text)
    \/ \E q \in 1..Len(sequences) : Cancel(q)
    \/ \E i \in 1..Len(loads) : LoadAdvance(i)
    \/ \E i \in 1..Len(loads) : LoadComplete(i)
    \/ \E i \in 1..Len(loads) : LoadFail(i)
    \/ \E q \in 1..Len(sequences) : CallbackFires(q)
    \/ \E q \in 1..Len(sequences) : \E i \in 1..Len(sequences[q].timers) : TimerFires(q, i)
    \/ TickWhileWaiting

Spec == Init /\ [][Next]_vars

----------------------------------------------------------------------------
(* Loops: play and stopLoop on a library that holds two sounds *)

LoopNames == {"win", "coin"}
StopNames == LoopNames \cup {"steps"}

LoopLibrary == [n \in LoopNames |-> IF n = "win" THEN 1 ELSE 2]

InitLoops ==
    /\ soundLibrary = LoopLibrary
    /\ loops = <<>>
    /\ managerQueue = 0
    /\ sequences = <<>>
    /\ loads = <<>>
    /\ nextBuffer = 3
    /\ sources = 0
    /\ connections = <<>>
    /\ log = [o \in {0} |-> <<>>]
    /\ thrown = "none"
    /\ returned = LoopLibrary
    /\ now = 0
    /\ ops = 0
    /\ input = ""
    /\ stopCalls = {}
    /\ bufferFile = <<"sounds/win.wav", "sounds/coin.wav">>
    /\ InputIdle
    /\ LifecycleIdle
    /\ UiIdle
    /\ TouchIdle

NextLoops ==
    \/ \E name \in LoopNames, loop \in BOOLEAN : Play(name, loop)
    \/ \E name \in StopNames : StopLoop(name)

SpecLoops == InitLoops /\ [][NextLoops]_vars

\* the same calls, the plays also with a name that is not in the library and
\* with one the library inherits
RegistryNames == StopNames \cup {"toString"}

NextRegistry ==
    \/ \E name \in RegistryNames, loop \in BOOLEAN : Play(name, loop)
    \/ \E name \in StopNames : StopLoop(name)

SpecRegistry == InitLoops /\ [][NextRegistry]_vars

----------------------------------------------------------------------------
(* Freesound: addFreesound calls against a provider whose answers vary *)

MaxLookups == 2

FreesoundNames == {"cat", "dog"}
\* const FREESOUND_KEY of the example game
FREESOUND_KEY == "enter-your-own-key-here"
\* maxLength as the url template writes it: "2" for the default, and the
\* "kitten meow" the example game passes in third place
MaxLengths == {"2", "kitten meow"}
\* searchTerms; "" stands for the default null, which is falsy like it
SearchTerms == {"", "kitten meow"}

\* the url addFreesound fetches
searchUrl(freesoundKey, maxLength, searchTerms) ==
    "https://freesound.org/apiv2/search/text/?fields=name,duration,previews,license,username,url&filter=duration:%5B0.1%20TO%20"
    \o maxLength \o "%5D&query=" \o searchTerms \o "&token=" \o freesoundKey

\* the TypeError of reading result.name when jsonData.results is empty
NoResultError == "TypeError: Cannot read properties of undefined (reading 'name')"

Meow == [name |-> "meow", preview |-> "previews/meow-hq.mp3"]
Bark == [name |-> "bark", preview |-> "previews/bark-hq.mp3"]
\* jsonData.results, as the provider may answer
ResultLists == {<<>>, <<Meow>>, <<Bark, Meow>>}

\* const result = jsonData.results[0]; result.previews["preview-hq-mp3"]
soundUrlOf(results) == results[1].preview

\* addFreesound(name, freesoundKey, maxLength, searchTerms) up to its first await
AddFreesound(name, maxLength, searchTerms) ==
    /\ ops < MaxLookups
    /\ ops' = ops + 1
    /\ LET query == IF searchTerms = "" THEN name ELSE searchTerms
       IN  loads' = Append(loads,
              [NewLoad(name, searchUrl(FREESOUND_KEY, maxLength, query)) EXCEPT
                  !.stage = "search",
                  !.query = query])
    /\ thrown' = "none"
    /\ UNCHANGED <<soundLibrary, loops, managerQueue, sequences, nextBuffer,
                   sources, connections, log, returned, now, input, stopCalls, bufferFile,
                   nonAudioVars>>

\* the fetch of the search url resolves
SearchResolves(i) ==
    /\ loads[i].stage = "search"
    /\ loads' = [loads EXCEPT ![i].stage = "json"]
    /\ thrown' = "none"
    /\ UNCHANGED <<soundLibrary, loops, managerQueue, sequences, nextBuffer,
                   sources, connections, log, returned, now, ops, input, stopCalls, bufferFile,
                   nonAudioVars>>

\* response.json() resolves: with no result, reading result.name throws a
\* TypeError; with results, addSound(name, soundUrl) is called and awaited
JsonResolves(i, results) ==
    /\ loads[i].stage = "json"
    /\ IF results = <<>>
       THEN /\ loads' = RemoveAt(loads, i)
            /\ thrown' = NoResultError
       ELSE /\ loads' = [loads EXCEPT ![i] =
                    [NewLoad(@.name, soundUrlOf(results)) EXCEPT
                        !.query = loads[i].query,
                        !.results = results,
                        !.startedAt = loads[i].startedAt]]
            /\ thrown' = "none"
    /\ UNCHANGED <<soundLibrary, loops, managerQueue, sequences, nextBuffer,
                   sources, connections, log, returned, now, ops, input, stopCalls, bufferFile,
                   nonAudioVars>>

NextFreesound ==
    \/ \E name \in FreesoundNames, maxLength \in MaxLengths,
          searchTerms \in SearchTerms :
          AddFreesound(name, maxLength, searchTerms)
    \/ \E i \in 1..Len(loads) : SearchResolves(i)
    \/ \E i \in 1..Len(loads) : \E results \in ResultLists : JsonResolves(i, results)
    \/ \E i \in 1..Len(loads) : LoadAdvance(i)
    \/ \E i \in 1..Len(loads) : LoadComplete(i)
    \/ \E i \in 1..Len(loads) : LoadFail(i)

SpecFreesound == Init /\ [][NextFreesound]_vars

----------------------------------------------------------------------------
(* Notifications: play with every option, speak, and one narration *)

MaxPlays == 2

Volumes == {0, 1}
Pans == {-1, 0, 1}
PlayOptions == [volume : Volumes, panValue : Pans, loop : BOOLEAN]

PlayCall(name, options) == ops < MaxPlays /\ PlayWith(name, options)
SpeakCall(text) == ops < MaxPlays /\ Speak(text)
NarrationCall(formattedText) == ops < MaxPlays /\ SpeakWithSoundEffects(formattedText)

NextPlay ==
    \/ \E name \in PlayNames, options \in PlayOptions : PlayCall(name, options)
    \/ \E text \in SpeakTexts : SpeakCall(text)
    \/ NarrationCall("You win {{win}} great job")
    \/ \E q \in 1..Len(sequences) : CallbackFires(q)
    \/ \E q \in 1..Len(sequences) : \E i \in 1..Len(sequences[q].timers) : TimerFires(q, i)
    \/ TickWhileWaiting

SpecPlay == InitLoops /\ [][NextPlay]_vars

----------------------------------------------------------------------------
(* InputManager: keyboard keys and gestures turned into controllerInput events *)

MaxInputs == 3

audioVars == <<soundLibrary, loops, managerQueue, sequences, loads, nextBuffer,
               sources, connections, log, thrown, returned, now, ops, input, stopCalls,
               bufferFile>>

\* event.key of the keyup events tried
Keys == {"a", "b", "ArrowUp", "ArrowDown", "ArrowLeft", "ArrowRight", "Enter",
         "A", "x"}
\* the gesture names GestureTracker.propagateEvent is called with
Gestures == {"oneFingerTap", "twoFingerTap", "threeFingerTap", "longPress",
             "leftSwipe", "rightSwipe", "upSwipe", "downSwipe"}

\* the detail of new CustomEvent(type, { detail: key }): null for undefined
EventDetail(key) == IF key = "undefined" THEN "null" ELSE key

\* document.dispatchEvent(new CustomEvent('controllerInput', { detail: key })):
\* a detail of undefined takes the default of the init dictionary, null
propagateEvent(events, key) == Append(events, EventDetail(key))

\* InputManager.handleKeyboardKey(keyName)
handleKeyboardKey(events, keyName) ==
    IF keyName \in {"a", "b", "ArrowUp", "ArrowDown", "ArrowLeft", "ArrowRight"}
    THEN propagateEvent(events, keyName)
    ELSE IF keyName = "Enter"
    THEN propagateEvent(events, "Start")
    ELSE events

\* gestureToController[gestureName], a plain object: an inherited name reads
\* as the member of Object.prototype, any other name with no entry as undefined
gestureToController(gestureName) ==
    CASE gestureName = "leftSwipe" -> "ArrowLeft"
      [] gestureName = "rightSwipe" -> "ArrowRight"
      [] gestureName = "upSwipe" -> "ArrowUp"
      [] gestureName = "downSwipe" -> "ArrowDown"
      [] gestureName = "oneFingerTap" -> "a"
      [] gestureName = "twoFingerTap" -> "b"
      [] gestureName = "threeFingerTap" -> "start"
      [] gestureName \in ObjectPrototypeNames -> InheritedMember(gestureName)
      [] OTHER -> "undefined"

\* InputManager.handleGestureInput(gestureName)
handleGestureInput(events, gestureName) ==
    propagateEvent(events, gestureToController(gestureName))

\* a keyup event on document
KeyUp(keyName) ==
    /\ Len(controllerInputs) < MaxInputs
    /\ controllerInputs' = handleKeyboardKey(controllerInputs, keyName)
    /\ UNCHANGED <<audioVars, lifecycleVars, uiVars, touchVars>>

\* a gesture event on the gesture canvas
GestureEvent(gestureName) ==
    /\ Len(controllerInputs) < MaxInputs
    /\ controllerInputs' = handleGestureInput(controllerInputs, gestureName)
    /\ UNCHANGED <<audioVars, lifecycleVars, uiVars, touchVars>>

NextInput ==
    \/ \E keyName \in Keys : KeyUp(keyName)
    \/ \E gestureName \in Gestures : GestureEvent(gestureName)

SpecInput == Init /\ [][NextInput]_vars

----------------------------------------------------------------------------
(* Draining: narrations whose sounds are all loaded, every completion        *)
(* callback and every timer eventually firing                                *)

MaxNarrations == 2

DrainInputs == {"You win {{win}} great job", "{{coin}} {{win}}", "go"}

DrainCall(formattedText) ==
    /\ ops < MaxNarrations
    /\ SpeakWithSoundEffects(formattedText)

\* the deadlines of the sleep() timers still running
Deadlines ==
    UNION {{sequences[q].timers[i] : i \in 1..Len(sequences[q].timers)} :
              q \in 1..Len(sequences)}

\* time passes until the next sleep() timer is due
TickToDeadline ==
    /\ \E d \in Deadlines : d > now
    /\ \A d \in Deadlines : d > now
    /\ now' = SetMin(Deadlines)
    /\ UNCHANGED <<soundLibrary, loops, managerQueue, sequences, loads, nextBuffer,
                   sources, connections, log, thrown, returned, ops, input, stopCalls, bufferFile,
                   nonAudioVars>>

AnyCallbackFires == \E q \in 1..Len(sequences) : CallbackFires(q)
AnyTimerFires ==
    \E q \in 1..Len(sequences) : \E i \in 1..Len(sequences[q].timers) : TimerFires(q, i)

NextDrain ==
    \/ \E text \in DrainInputs : DrainCall(text)
    \/ AnyCallbackFires
    \/ AnyTimerFires
    \/ TickToDeadline

\* the platform ends every speech and sound and runs every timer that is due
SpecDrain ==
    /\ InitLoops
    /\ [][NextDrain]_vars
    /\ WF_vars(AnyCallbackFires)
    /\ WF_vars(AnyTimerFires)
    /\ WF_vars(TickToDeadline)

----------------------------------------------------------------------------
(* UserInterface: the on-screen log of #plinkUI. An element is a div with   *)
(* its className, its innerText and its identity (node); the show functions *)
(* make a new element at every call.                                        *)

MaxShown == 20
MaxVaried == 2

\* values the constructor's maxElements is given; 18 is its default
MaxElementsTried == {0, 1, 3, DefaultMaxElements}
UiTexts == {"a"}
UiPans == {-1, 0, 1}

\* the identity of the element the next document.createElement call makes
NewNode == Len(shownAll) + 1

\* createDiv(className, text): a new element, node being its identity
createDiv(className, text, node) ==
    [className |-> className, innerText |-> text, node |-> node]

\* (mutant) showText removing the newest child to make room
showTextEvictsNewest(children, div) ==
    IF Len(children) >= maxElements /\ maxElements > 0
    THEN [children |-> Append(SubSeq(children, 1, maxElements - 1), div),
          thrown |-> "none"]
    ELSE [children |-> Append(children, div), thrown |-> "none"]

\* showText(htmlString): while the element has maxElements children or more,
\* removeChild(firstChild), a TypeError once no child is left; then
\* appendChild, which moves an element that is a child already
showText(children, div) ==
    IF maxElements <= 0
    THEN [children |-> <<>>, thrown |-> "TypeError"]
    ELSE LET excess == IF Len(children) >= maxElements
                       THEN Len(children) - maxElements + 1 ELSE 0
             kept == SubSeq(children, excess + 1, Len(children))
         IN  [children |-> Append(SelectSeq(kept, LAMBDA c : c.node # div.node),
                                  div),
              thrown |-> "none"]

\* clearAll(): this.element.innerHTML = ''
clearAll(children) == SubSeq(children, 1, 0)

\* the div showMainAudio(text) shows
mainAudioDiv(text, node) == createDiv("mainAudio", "narrator: " \o text, node)

\* the div showSoundEffect(text, panValue, loop) shows
soundEffectDiv(text, panValue, node) ==
    LET prefix == IF panValue < 0 THEN "sound: " \o " (left)"
                  ELSE IF panValue > 0 THEN "sound: " \o " (right)"
                  ELSE "sound: "
    IN  createDiv("soundEffect", prefix \o text, node)

\* the div showBackgroundSound(text) shows
backgroundSoundDiv(text, node) ==
    createDiv("backgroundSound", "background: " \o text, node)

\* the div showUserInput(text) shows
userInputDiv(text, node) == createDiv("userInput", "user input: " \o text, node)

\* the elements showUserInput has made so far
UserInputs ==
    {shownAll[i].node : i \in {j \in 1..Len(shownAll) :
                                   shownAll[j].className = "userInput"}}

\* the number of calls so far other than showUserInput
VariedCalls == Len(shownAll) - Cardinality(UserInputs) + Len(clears)

\* a call of showText with div, by the page or by one of the show functions
Show(div) ==
    /\ Len(shownAll) < MaxShown
    /\ (div.className # "userInput" \/ div.node # NewNode) => VariedCalls < MaxVaried
    /\ LET shown == showText(uiLog, div)
       IN  /\ uiLog' = shown.children
           /\ thrown' = shown.thrown
    /\ shownAll' = Append(shownAll, div)
    /\ UNCHANGED <<soundLibrary, loops, managerQueue, sequences, loads, nextBuffer,
                   sources, connections, log, returned, now, ops, input, stopCalls,
                   bufferFile, inputVars, lifecycleVars, maxElements, clears,
                   touchVars>>

\* showMainAudio(text); the page calls it for every 'speak' event
ShowMainAudio(text) == Show(mainAudioDiv(text, NewNode))

\* showSoundEffect(text, panValue, loop); the page calls it for every
\* 'soundEffect' event
ShowSoundEffect(text, panValue) == Show(soundEffectDiv(text, panValue, NewNode))

\* showBackgroundSound(text)
ShowBackgroundSound(text) == Show(backgroundSoundDiv(text, NewNode))

\* showUserInput(text); the page calls it for every 'controllerInput' event
ShowUserInput(text) == Show(userInputDiv(text, NewNode))

\* showText(div) with a new div of the caller's own
ShowText(text) == Show(createDiv("custom", text, NewNode))

\* the children showText is tried with again: the oldest two and the newest
ChildrenTried == {1, 2, Len(uiLog)} \cap DOMAIN uiLog

\* showText(div) with the k-th child of the element
ShowChild(k) == Show(uiLog[k])

\* a call that empties the element, by the given function
Clear(by) ==
    /\ VariedCalls < MaxVaried
    /\ uiLog' = clearAll(uiLog)
    /\ clears' = Append(clears, [by |-> by, shown |-> Len(shownAll)])
    /\ thrown' = "none"
    /\ UNCHANGED <<soundLibrary, loops, managerQueue, sequences, loads, nextBuffer,
                   sources, connections, log, returned, now, ops, input, stopCalls,
                   bufferFile, inputVars, lifecycleVars, maxElements, shownAll,
                   touchVars>>

\* clearAll()
ClearAll == Clear("clearAll")

\* initializeUI(), which calls clearAll()
InitializeUI == Clear("initializeUI")

\* new AudioManager(), and new UserInterface(element, maxElements) after
\* initializeUI()
InitUI ==
    /\ soundLibrary = NoLibrary
    /\ loops = <<>>
    /\ managerQueue = 0
    /\ sequences = <<>>
    /\ loads = <<>>
    /\ nextBuffer = 1
    /\ sources = 0
    /\ connections = <<>>
    /\ log = [o \in {0} |-> <<>>]
    /\ thrown = "none"
    /\ returned = NoLibrary
    /\ now = 0
    /\ ops = 0
    /\ input = ""
    /\ stopCalls = {}
    /\ bufferFile = <<>>
    /\ InputIdle
    /\ LifecycleIdle
    /\ maxElements \in MaxElementsTried
    /\ uiLog = <<>>
    /\ shownAll = <<>>
    /\ clears = <<>>
    /\ TouchIdle

NextUI ==
    \/ \E text \in UiTexts : ShowMainAudio(text)
    \/ \E text \in UiTexts : \E panValue \in UiPans : ShowSoundEffect(text, panValue)
    \/ \E text \in UiTexts : ShowBackgroundSound(text)
    \/ \E text \in UiTexts : ShowUserInput(text)
    \/ \E text \in UiTexts : ShowText(text)
    \/ \E k \in ChildrenTried : ShowChild(k)
    \/ ClearAll
    \/ InitializeUI

SpecUI == InitUI /\ [][NextUI]_vars

----------------------------------------------------------------------------
(* Lifecycle: the page as setup.js wires it, running the maze game of       *)
(* examples/maze. Every event raised on the page is shown by the            *)
(* UserInterface. The clock moves from one timer's deadline to the next.     *)

MaxSetupTimers == 2

\* the delay of the timer set on the input that unlocks the audio
SetupDelay == 1000

\* detail of the controllerInput events tried
PageKeys == {"ArrowUp", "ArrowDown"}

\* the sounds gameSetup loads, in the order of its addSound calls
SetupSounds == <<"bonk", "coin", "steps", "win">>

\* the file gameSetup gives for a sound
SoundFile(name) == "sounds/" \o name \o ".wav"

\* the text gameIntroduction narrates: one string literal continued over three
\* lines, the indentation of the continuation lines being part of the string
IntroNarration ==
    "Welcome to the maze. Use the arrow keys to navigate. You will hear "
    \o "    footsteps when you move successfully {{steps}}. You will hear a thunk when you try to move into a wall. {{bonk}} "
    \o "    You will hear a coin when you find a treasure. {{coin}} You must find the exit. Press the A button to continue."

mazeString ==
    "XX* XXXXXXXXXXXX\n"
    \o "XXX XXXXXXXX$XXX\n"
    \o "XX  XXXX     XXX\n"
    \o "XX XXXXX XXXXXXX\n"
    \o "XX   X   XX   XX\n"
    \o "XX X X X    XXXX\n"
    \o "XX X   XXXX XXXX\n"
    \o "XX$XXXXXXXXoXXXX\n"
    \o "XXXXXXXXXXXXXXXX"

\* chars.split('\n')
Lines(s) == SplitOn(s, "\n")

\* lines[y][x], x and y counted from 0: undefined past the end of the line
LineChar(lines, x, y) ==
    IF x < Len(lines[y + 1]) THEN SubSeq(lines[y + 1], x + 1, x + 1)
    ELSE "undefined"

\* mazeArray[y][x], x and y counted from 0
CharAt(mazeArray, x, y) == mazeArray[y + 1][x + 1]

\* mazeArray[y][x] = char
SetCharAt(mazeArray, x, y, char) == [mazeArray EXCEPT ![y + 1][x + 1] = char]

\* new Maze(chars): a row of mazeArray holds the characters of its line, as
\* many as the first line has, undefined where the line is shorter; the player
\* is where the last 'o' is, row by row, or at (-1, -1). SubSeq over the whole
\* length leaves a row unchanged and has it built as a tuple.
Maze(chars) ==
    LET lines == Lines(chars)
        height == Len(lines)
        width == Len(lines[1])
        starts == {c \in (0..(width - 1)) \X (0..(height - 1)) :
                      LineChar(lines, c[1], c[2]) = "o"}
        last == CHOOSE c \in starts :
                    \A d \in starts : d[2] < c[2] \/ (d[2] = c[2] /\ d[1] <= c[1])
    IN  [height |-> height, width |-> width,
         playerX |-> IF starts = {} THEN -1 ELSE last[1],
         playerY |-> IF starts = {} THEN -1 ELSE last[2],
         mazeArray |-> SubSeq([y \in 1..height |->
                                 SubSeq([x \in 1..width |->
                                            LineChar(lines, x - 1, y - 1)],
                                        1, width)],
                              1, height)]

\* CustomEvent('controllerInput', { detail: key })
ControllerInputEvent(key) ==
    [kind |-> "controllerInput", name |-> EventDetail(key),
     panValue |-> 0, volume |-> 1, loop |-> FALSE, t |-> now]

\* the element the 'speak', 'soundEffect' and first 'controllerInput' listener
\* of setup.js show for an event
shownFor(event, node) ==
    IF event.kind = "speak" THEN mainAudioDiv(event.name, node)
    ELSE IF event.kind = "soundEffect"
    THEN soundEffectDiv(event.name, event.panValue, node)
    ELSE userInputDiv(event.name, node)

\* the children of the UserInterface element after these events were shown,
\* node being the identity of the element made for the first of them
RECURSIVE showEvents(_, _, _)
showEvents(children, events, node) ==
    IF events = <<>> THEN children
    ELSE showEvents(showText(children, shownFor(Head(events), node)).children,
                    Tail(events), node + 1)

\* an entry of calls; at is GameState.state when it was made
Call(fn, arg, at) == [fn |-> fn, arg |-> arg, at |-> at]

CallsOf(cs, fn) == {i \in 1..Len(cs) : cs[i].fn = fn}

\* the state the listeners of the page read and write, passed along their chain
PageCur ==
    [sequences |-> sequences, log |-> log, sources |-> sources,
     connections |-> connections, loops |-> loops,
     thrown |-> "none", emitted |-> <<>>,
     managerQueue |-> managerQueue, loads |-> loads, gameState |-> gameState,
     setupTimers |-> setupTimers, setupsPending |-> setupsPending, calls |-> calls,
     maze |-> maze, treasuresFound |-> treasuresFound]

\* the chain has ended; the listeners of setup.js have shown each of its events
PageCommit(p) ==
    /\ Commit(p)
    /\ managerQueue' = p.managerQueue
    /\ loads' = p.loads
    /\ gameState' = p.gameState
    /\ setupTimers' = p.setupTimers
    /\ setupsPending' = p.setupsPending
    /\ calls' = p.calls
    /\ maze' = p.maze
    /\ treasuresFound' = p.treasuresFound
    /\ uiLog' = showEvents(uiLog, p.emitted, NewNode)
    /\ shownAll' = shownAll \o [i \in 1..Len(p.emitted) |->
                                   shownFor(p.emitted[i], Len(shownAll) + i)]

\* window.AudioManager.speakWithSoundEffects(formattedText), called by the game
narrate(p, formattedText) ==
    LET q == Len(p.sequences) + 1
        r == speakWithSoundEffects(p, formattedText, q)
    IN  [r EXCEPT !.managerQueue = IF r.thrown = "none" THEN q ELSE @]

\* gameSetup() up to its first await: addSound('bonk', 'sounds/bonk.wav') has
\* been called and is awaited
gameSetup(p) ==
    LET id == Cardinality(CallsOf(p.calls, "gameSetup")) + 1
    IN  [p EXCEPT !.calls = Append(@, Call("gameSetup", id, p.gameState)),
                  !.setupsPending = @ \cup {id},
                  !.loads = Append(@, [NewLoad(SetupSounds[1], SoundFile(SetupSounds[1]))
                                          EXCEPT !.owner = id])]

\* gameIntroduction(), called for the gameSetup call id
gameIntroduction(p, id) ==
    narrate([p EXCEPT !.calls = Append(@, Call("gameIntroduction", id, p.gameState))],
            IntroNarration)

\* the callback setup.js gave to gameSetup().then, run for the call id
setupCompleted(p, id) ==
    gameIntroduction(
        [p EXCEPT !.calls = Append(@, Call("setupResolved", id, p.gameState)),
                  !.gameState = STATE_GAME_INTRO_STARTED], id)

\* gameSetup() of call id after its k-th await: the next addSound, buffer being
\* the next one the decoder creates, or, after the last, the maze is built, the
\* promise resolves and the callback of setup.js runs
gameSetupResumes(p, id, k, buffer) ==
    IF k < Len(SetupSounds)
    THEN [p EXCEPT !.loads = Append(@, [NewLoad(SetupSounds[k + 1],
                                                SoundFile(SetupSounds[k + 1]))
                                           EXCEPT !.owner = id,
                                                  !.startedAt = buffer])]
    ELSE setupCompleted([p EXCEPT !.maze = <<Maze(mazeString)>>,
                                  !.treasuresFound = <<0>>,
                                  !.setupsPending = @ \ {id}], id)

\* gamePlay()
gamePlay(p) ==
    speak([p EXCEPT !.calls = Append(@, Call("gamePlay", "", p.gameState))],
          "Good luck!", 0)

\* movePlayer(dx, dy)
movePlayer(p, dx, dy) ==
    LET mz == p.maze[1]
        newPlayerX == mz.playerX + dx
        newPlayerY == mz.playerY + dy
    IN  IF \/ newPlayerX >= mz.width \/ newPlayerX < 0
           \/ newPlayerY >= mz.height \/ newPlayerY < 0
        THEN play(p, "bonk", DefaultOptions, 0)
        ELSE LET charAtNewLocation == CharAt(mz.mazeArray, newPlayerX, newPlayerY)
                 moved == [p EXCEPT !.maze = <<[mz EXCEPT
                              !.mazeArray = SetCharAt(
                                  SetCharAt(@, newPlayerX, newPlayerY, "0"),
                                  mz.playerX, mz.playerY, " "),
                              !.playerX = newPlayerX,
                              !.playerY = newPlayerY]>>]
                 stepped == play(moved, "steps", DefaultOptions, 0)
             IN  IF charAtNewLocation = "X"
                 THEN play(p, "bonk", DefaultOptions, 0)
                 ELSE IF stepped.thrown # "none" THEN stepped
                 ELSE IF charAtNewLocation = "$"
                 THEN LET told == narrate(stepped, "{{coin}} You found a treasure.")
                      IN  IF told.thrown # "none" THEN told
                          ELSE [told EXCEPT !.treasuresFound = <<@[1] + 1>>]
                 ELSE IF charAtNewLocation = "*"
                 THEN narrate(stepped,
                          "{{win}} You have escaped the maze! You found "
                          \o ToString(stepped.treasuresFound[1])
                          \o " of 2 treasures.")
                 ELSE stepped

\* handleInput(key)
handleInput(p, key) ==
    LET called == [p EXCEPT !.calls = Append(@, Call("handleInput", key, p.gameState))]
    IN  IF key = "ArrowUp" THEN movePlayer(called, 0, -1)
        ELSE IF key = "ArrowDown" THEN movePlayer(called, 0, 1)
        ELSE IF key = "ArrowLeft" THEN movePlayer(called, -1, 0)
        ELSE IF key = "ArrowRight" THEN movePlayer(called, 1, 0)
        ELSE called

\* (mutant) the forwarding listener without its test of the state
forwardInputAlways(p, key) ==
    IF p.maze = <<>>
    THEN [p EXCEPT !.calls = Append(@, Call("handleInput", key, p.gameState))]
    ELSE handleInput(p, key)

\* the controllerInput listener that passes input to the game
forwardInput(p, key) ==
    IF p.gameState = STATE_GAME_PLAYING THEN handleInput(p, key) ELSE p

\* the controllerInput listener that steps through the lifecycle
lifecycleInput(p, key) ==
    IF p.gameState = STATE_REQUEST_INPUT
    THEN \* speechSynthesis.cancel(); playTone(100, 500); setTimeout(..., 1000)
         [p EXCEPT !.setupTimers = Append(@, now + SetupDelay)]
    ELSE IF p.gameState = STATE_GAME_INTRO_STARTED
    THEN LET canceled == IF p.managerQueue # 0
                         THEN [p EXCEPT !.sequences[p.managerQueue] = cancel(@)]
                         ELSE p
         IN  gamePlay([canceled EXCEPT !.gameState = STATE_GAME_PLAYING])
    ELSE p

\* (mutant) the listeners run in the other order
dispatchLifecycleFirst(p, key) == forwardInput(lifecycleInput(p, key), key)

\* document.dispatchEvent(controllerInput): the listeners that act on the game, in
\* the order setup.js added them
dispatchControllerInput(p, key) == lifecycleInput(forwardInput(p, key), key)

\* InputManager.propagateEvent(key): a controllerInput event is raised on the
\* page and its listeners run
ControllerInput(key) ==
    /\ Len(controllerInputs) < MaxInputs
    /\ Cardinality(CallsOf(calls, "gameSetup")) + Len(setupTimers) < MaxSetupTimers
          \/ gameState # STATE_REQUEST_INPUT
    /\ controllerInputs' = propagateEvent(controllerInputs, key)
    /\ PageCommit(dispatchControllerInput(
           [PageCur EXCEPT !.calls = Append(@, Call("input", EventDetail(key),
                                                    gameState)),
                           !.emitted = <<ControllerInputEvent(key)>>],
           EventDetail(key)))
    /\ UNCHANGED <<soundLibrary, nextBuffer, returned, now, ops, input,
                   stopCalls, bufferFile, maxElements, clears, touchVars>>

\* the one-second timer set first is due and fires: RECEIVED_INPUT, GAME_SETUP,
\* then gameSetup()
SetupTimerFires ==
    /\ setupTimers # <<>>
    /\ Head(setupTimers) <= now
    /\ PageCommit(gameSetup([PageCur EXCEPT !.setupTimers = Tail(@),
                                            !.gameState = STATE_GAME_SETUP]))
    /\ UNCHANGED <<soundLibrary, nextBuffer, returned, now, ops, input,
                   stopCalls, bufferFile, inputVars, maxElements, clears, touchVars>>

\* decodeAudioData resolves for an addSound that gameSetup awaits: the buffer
\* is registered and returned, and gameSetup goes on
SetupLoadCompletes(i) ==
    /\ loads[i].stage = "decode"
    /\ loads[i].owner \in setupsPending
    /\ soundLibrary' = Register(soundLibrary, loads[i].name, nextBuffer)
    /\ returned' = Register(returned, loads[i].name, nextBuffer)
    /\ nextBuffer' = nextBuffer + 1
    /\ bufferFile' = Append(bufferFile, loads[i].file)
    /\ PageCommit(gameSetupResumes(
           [PageCur EXCEPT !.loads = RemoveAt(@, i)], loads[i].owner,
           CHOOSE k \in 1..Len(SetupSounds) : SetupSounds[k] = loads[i].name,
           nextBuffer + 1))
    /\ UNCHANGED <<now, ops, input, stopCalls, inputVars, maxElements, clears, touchVars>>

\* (mutant) a rejected gameSetup promise whose callback runs all the same
SetupLoadFailsThenIntro(i) ==
    /\ loads[i].owner \in setupsPending
    /\ PageCommit(gameIntroduction(
           [PageCur EXCEPT !.loads = RemoveAt(@, i),
                           !.setupsPending = @ \ {loads[i].owner},
                           !.calls = Append(@, Call("setupRejected", loads[i].owner,
                                                    gameState)),
                           !.gameState = STATE_GAME_INTRO_STARTED], loads[i].owner))
    /\ UNCHANGED <<soundLibrary, nextBuffer, returned, now, ops, input,
                   stopCalls, bufferFile, inputVars, maxElements, clears, touchVars>>

\* an await of an addSound that gameSetup awaits rejects: so does the promise
\* of gameSetup, for which setup.js registered no callback
SetupLoadFails(i) ==
    /\ loads[i].owner \in setupsPending
    /\ loads' = RemoveAt(loads, i)
    /\ setupsPending' = setupsPending \ {loads[i].owner}
    /\ calls' = Append(calls, Call("setupRejected", loads[i].owner, gameState))
    /\ thrown' = "gameSetup rejected"
    /\ UNCHANGED <<soundLibrary, loops, managerQueue, sequences, nextBuffer,
                   sources, connections, log, returned, now, ops, input, stopCalls,
                   bufferFile, gameState, setupTimers, maze, treasuresFound,
                   inputVars, uiVars, touchVars>>

\* a sleep() timer of sequence q expires on the page: doNext runs
PageTimerFires(q, i) ==
    /\ sequences[q].timers[i] <= now
    /\ PageCommit(doNext([PageCur EXCEPT !.sequences[q].timers = RemoveAt(@, i)], q))
    /\ UNCHANGED <<soundLibrary, nextBuffer, returned, now, ops, input,
                   stopCalls, bufferFile, inputVars, maxElements, clears, touchVars>>

\* the deadlines of the timers of the page still running
PageDeadlines == Deadlines \cup {setupTimers[i] : i \in 1..Len(setupTimers)}

\* time passes until the next timer of the page is due, up to MaxTime after
\* the first of the one-second timers
TickToTimer ==
    /\ \E d \in PageDeadlines : d > now /\ d <= SetupDelay + MaxTime
    /\ now' = SetMin({d \in PageDeadlines : d > now})
    /\ UNCHANGED <<soundLibrary, loops, managerQueue, sequences, loads, nextBuffer,
                   sources, connections, log, thrown, returned, ops, input, stopCalls,
                   bufferFile, nonAudioVars>>

\* the page after its DOMContentLoaded listener has run: the prompt was spoken
\* and shown
InitLifecycle ==
    /\ soundLibrary = NoLibrary
    /\ loops = <<>>
    /\ managerQueue = 0
    /\ sequences = <<>>
    /\ loads = <<>>
    /\ nextBuffer = 1
    /\ sources = 0
    /\ connections = <<>>
    /\ log = [o \in {0} |->
                 <<[kind |-> "speak", name |-> "Press a key or tap the screen to begin.",
                    panValue |-> 0, volume |-> 1, loop |-> FALSE, t |-> 0]>>]
    /\ thrown = "none"
    /\ returned = NoLibrary
    /\ now = 0
    /\ ops = 0
    /\ input = ""
    /\ stopCalls = {}
    /\ bufferFile = <<>>
    /\ InputIdle
    /\ gameState = STATE_REQUEST_INPUT
    /\ setupTimers = <<>>
    /\ setupsPending = {}
    /\ calls = <<>>
    /\ maze = <<>>
    /\ treasuresFound = <<>>
    /\ maxElements = DefaultMaxElements
    /\ uiLog = <<mainAudioDiv("Press a key or tap the screen to begin.", 1)>>
    /\ shownAll = <<mainAudioDiv("Press a key or tap the screen to begin.", 1)>>
    /\ clears = <<>>
    /\ TouchIdle

NextLifecycle ==
    \/ \E key \in PageKeys : ControllerInput(key)
    \/ SetupTimerFires
    \/ \E i \in 1..Len(loads) : LoadAdvance(i)
    \/ \E i \in 1..Len(loads) : SetupLoadCompletes(i)
    \/ \E i \in 1..Len(loads) : SetupLoadFails(i)
    \/ \E q \in 1..Len(sequences) : CallbackFires(q)
    \/ \E q \in 1..Len(sequences) : \E i \in 1..Len(sequences[q].timers) : PageTimerFires(q, i)
    \/ TickToTimer

SpecLifecycle == InitLifecycle /\ [][NextLifecycle]_vars

----------------------------------------------------------------------------
(* GestureTracker: touch events on the gesture canvas classified into       *)
(* gestures. Each touch event here carries one changed touch. The timers    *)
(* of a touch sequence fire in the order of their delays, at any point      *)
(* between the touch events.                                                *)

TAP_THRESHOLD_MS == 400
TAP_MAX_TRAVEL_PIXELS == 25
SWIPE_MIN_DISTANCE_PIXELS == 75
SWIPE_MAX_MILLISECONDS == 500
LONG_PRESS_MILLISECONDS == 1000

MaxTouchSequences == 2
MaxMoves == 1

\* the identifiers of the touches; every touch of a touch sequence has one of
\* its own, a finger put down again counting as another finger
TouchIds == {1, 2, 3, 4}

\* where finger id comes down (pageX, pageY)
StartOf(id) == <<200 * (id - 1), 0>>

\* how far from where it came down a touchmove takes a finger
Offsets == {<<10, 0>>, <<30, 0>>, <<100, 0>>, <<-100, 10>>, <<0, -100>>,
            <<10, 100>>, <<80, 80>>}

TimerKinds == {"tap", "swipe", "longPress"}

\* the delay each timer of touchDown is set with
TimerDelay(kind) ==
    CASE kind = "tap" -> TAP_THRESHOLD_MS
      [] kind = "swipe" -> SWIPE_MAX_MILLISECONDS
      [] kind = "longPress" -> LONG_PRESS_MILLISECONDS

TapGestures == {"oneFingerTap", "twoFingerTap", "threeFingerTap"}

\* distance(x1, x2, y1, y2), squared
distanceSquared(x1, x2, y1, y2) == (x2 - x1) * (x2 - x1) + (y2 - y1) * (y2 - y1)

\* the numberWithin tests of touchUp on angleBetween(x1, x2, y1, y2): an angle
\* is within SWIPE_MAX_ANGLE = 30 degrees of an axis when three times the
\* square of the offset across the axis is at most the square of the one along
swipeDirection(x1, x2, y1, y2) ==
    LET dx == x2 - x1
        dy == y2 - y1
    IN  IF dx > 0 /\ 3 * dy * dy <= dx * dx THEN "rightSwipe"
        ELSE IF dx < 0 /\ 3 * dy * dy <= dx * dx THEN "leftSwipe"
        ELSE IF dy < 0 /\ 3 * dx * dx <= dy * dy THEN "upSwipe"
        ELSE IF dy > 0 /\ 3 * dx * dx <= dy * dy THEN "downSwipe"
        ELSE "none"

\* the tracker's fields; during is the touch sequence its events are raised
\* in, moved whether the event handled is a touchmove, controllerInputs the
\* events the InputManager that made the tracker has raised
TrackerCur(during) ==
    [touches |-> touches, timers |-> gestureTimers,
     fingersInThisGesture |-> fingersInThisGesture, couldBeTap |-> couldBeTap,
     couldBeLongPress |-> couldBeLongPress, couldBeSwipe |-> couldBeSwipe,
     lastGesture |-> lastGesture, during |-> during, moved |-> FALSE,
     controllerInputs |-> controllerInputs]

TrackerCommit(t) ==
    /\ touches' = t.touches
    /\ gestureTimers' = t.timers
    /\ fingersInThisGesture' = t.fingersInThisGesture
    /\ couldBeTap' = t.couldBeTap
    /\ couldBeLongPress' = t.couldBeLongPress
    /\ couldBeSwipe' = t.couldBeSwipe
    /\ lastGesture' = t.lastGesture
    /\ controllerInputs' = t.controllerInputs
    /\ touchSequence' = IF t.touches = <<>> THEN NoTouchSequence(t.during.n)
                        ELSE t.during
    /\ touchMoves' = IF t.touches = <<>> THEN 0
                     ELSE IF t.moved THEN touchMoves + 1 ELSE touchMoves

\* GestureTracker.propagateEvent(gestureType): the 'gesture' event dispatched
\* on the canvas, where the listener of the InputManager handles it
trackerPropagateEvent(t, gestureType) ==
    [t EXCEPT !.lastGesture = [detail |-> gestureType, during |-> t.during],
              !.during.gestures = Append(@, gestureType),
              !.controllerInputs = handleGestureInput(@, gestureType)]

\* (mutant) cancel() that leaves the timers running
trackerCancelKeepsTimers(t) ==
    [t EXCEPT !.couldBeTap = FALSE,
              !.couldBeLongPress = FALSE,
              !.couldBeSwipe = FALSE,
              !.fingersInThisGesture = -1]

\* GestureTracker.cancel()
trackerCancel(t) ==
    [t EXCEPT !.timers = {},
              !.couldBeTap = FALSE,
              !.couldBeLongPress = FALSE,
              !.couldBeSwipe = FALSE,
              !.fingersInThisGesture = -1]

\* GestureTracker.touchDown for one changed touch
touchDown(t, id, pageX, pageY) ==
    LET touch == [id |-> id, startX |-> pageX, startY |-> pageY]
    IN  IF Len(t.touches) = 0
        THEN [t EXCEPT !.touches = Append(@, touch),
                       !.fingersInThisGesture = 1,
                       !.couldBeTap = TRUE,
                       !.couldBeLongPress = TRUE,
                       !.couldBeSwipe = TRUE,
                       !.timers = @ \cup {[kind |-> kind, armedIn |-> t.during.n] :
                                              kind \in TimerKinds}]
        ELSE [t EXCEPT !.fingersInThisGesture = @ + 1,
                       !.touches = Append(@, touch),
                       !.couldBeLongPress = FALSE,
                       !.couldBeSwipe = FALSE]

\* GestureTracker.touchUp for one changed touch, a finger that is in touches
touchUp(t, id, pageX, pageY) ==
    LET origTouch == t.touches[CHOOSE k \in 1..Len(t.touches) : t.touches[k].id = id]
        left == SelectSeq(t.touches, LAMBDA touch : touch.id # id)
        t1 == [t EXCEPT !.touches = left]
        dist2 == distanceSquared(pageX, origTouch.startX, pageY, origTouch.startY)
        swipe == swipeDirection(origTouch.startX, pageX, origTouch.startY, pageY)
    IN  IF Len(left) # 0 THEN t1
        ELSE trackerCancel(
               IF t1.fingersInThisGesture = 2 /\ t1.couldBeTap
               THEN trackerPropagateEvent(t1, "twoFingerTap")
               ELSE IF t1.fingersInThisGesture = 3 /\ t1.couldBeTap
               THEN trackerPropagateEvent(t1, "threeFingerTap")
               ELSE IF t1.couldBeSwipe
                       /\ dist2 > SWIPE_MIN_DISTANCE_PIXELS * SWIPE_MIN_DISTANCE_PIXELS
               THEN (IF swipe # "none" THEN trackerPropagateEvent(t1, swipe) ELSE t1)
               ELSE IF t1.couldBeTap
               THEN trackerPropagateEvent(t1, "oneFingerTap")
               ELSE t1)

\* GestureTracker.touchMove for one changed touch
touchMove(t, pageX, pageY) ==
    IF Len(t.touches) = 1
          /\ distanceSquared(pageX, t.touches[1].startX, pageY, t.touches[1].startY)
                > TAP_MAX_TRAVEL_PIXELS * TAP_MAX_TRAVEL_PIXELS
    THEN [t EXCEPT !.couldBeTap = FALSE, !.couldBeLongPress = FALSE]
    ELSE t

\* the callbacks of the three timers touchDown sets
timerCallback(t, kind) ==
    CASE kind = "tap" -> [t EXCEPT !.couldBeTap = FALSE]
      [] kind = "swipe" -> [t EXCEPT !.couldBeSwipe = FALSE]
      [] kind = "longPress" ->
            IF t.couldBeLongPress THEN trackerPropagateEvent(t, "longPress") ELSE t

\* the fingers that are down
FingersDown == DOMAIN fingerAt

\* a touchstart event: a finger comes down; a touch sequence has as many of
\* them as there are identifiers, at most
TouchDown ==
    /\ fingersInThisGesture < Cardinality(TouchIds)
    /\ FingersDown = {} => touchSequence.n < MaxTouchSequences
    /\ LET id == SetMin(TouchIds \ touchSequence.fingers)
           during == IF FingersDown = {}
                     THEN [NoTouchSequence(touchSequence.n + 1) EXCEPT !.fingers = {id}]
                     ELSE [touchSequence EXCEPT !.fingers = @ \cup {id}]
       IN  /\ TrackerCommit(touchDown(TrackerCur(during), id, StartOf(id)[1],
                                      StartOf(id)[2]))
           /\ fingerAt' = [i \in FingersDown \cup {id} |->
                              IF i = id THEN StartOf(id) ELSE fingerAt[i]]
    /\ UNCHANGED <<audioVars, lifecycleVars, uiVars>>

\* a touchmove event: finger id is now at offset from where it came down
TouchMove(id, offset) ==
    /\ id \in FingersDown
    /\ touchMoves < MaxMoves
    /\ LET at == <<StartOf(id)[1] + offset[1], StartOf(id)[2] + offset[2]>>
           far == distanceSquared(at[1], StartOf(id)[1], at[2], StartOf(id)[2])
                     > TAP_MAX_TRAVEL_PIXELS * TAP_MAX_TRAVEL_PIXELS
           during == [touchSequence EXCEPT !.travelled = @ \/ far]
       IN  /\ at # fingerAt[id]
           /\ TrackerCommit(touchMove([TrackerCur(during) EXCEPT !.moved = TRUE],
                                      at[1], at[2]))
           /\ fingerAt' = [fingerAt EXCEPT ![id] = at]
    /\ UNCHANGED <<audioVars, lifecycleVars, uiVars>>

\* a touchend or touchcancel event: finger id lifts where it is
TouchUp(id) ==
    /\ id \in FingersDown
    /\ TrackerCommit(touchUp(TrackerCur(touchSequence), id, fingerAt[id][1],
                             fingerAt[id][2]))
    /\ fingerAt' = [i \in FingersDown \ {id} |-> fingerAt[i]]
    /\ UNCHANGED <<audioVars, lifecycleVars, uiVars>>

\* the timer callback of the given kind runs, for timer
RunTimer(timer) ==
    LET during == IF timer.kind = "tap" /\ timer.armedIn = touchSequence.n
                  THEN [touchSequence EXCEPT !.tapTimerFired = TRUE]
                  ELSE touchSequence
    IN  TrackerCommit(timerCallback(
            [TrackerCur(during) EXCEPT !.timers = @ \ {timer}], timer.kind))

\* (mutant) timers that fire in any order
GestureTimerFiresAnyOrder(kind) ==
    /\ \E timer \in gestureTimers :
          /\ timer.kind = kind
          /\ RunTimer(timer)
    /\ UNCHANGED <<audioVars, lifecycleVars, uiVars, fingerAt>>

\* a timer of the given kind fires; of the timers armed with it none with a
\* shorter delay is pending
GestureTimerFires(kind) ==
    /\ \E timer \in gestureTimers :
          /\ timer.kind = kind
          /\ \A other \in gestureTimers :
                 other.armedIn = timer.armedIn =>
                     TimerDelay(other.kind) >= TimerDelay(timer.kind)
          /\ RunTimer(timer)
    /\ UNCHANGED <<audioVars, lifecycleVars, uiVars, fingerAt>>

NextTouch ==
    \/ TouchDown
    \/ \E id \in TouchIds : \E offset \in Offsets : TouchMove(id, offset)
    \/ \E id \in TouchIds : TouchUp(id)
    \/ \E kind \in TimerKinds : GestureTimerFires(kind)

SpecTouch == Init /\ [][NextTouch]_vars

----------------------------------------------------------------------------
(* The parser under test: one speakWithSoundEffects call on a narration     *)
(* drawn from ParseInputs, with the sounds a, b and win loaded.             *)

ParseLibrary ==
    [n \in {"a", "b", "win"} |-> IF n = "a" THEN 1 ELSE IF n = "b" THEN 2 ELSE 3]

InitParse ==
    /\ soundLibrary = ParseLibrary
    /\ returned = ParseLibrary
    /\ nextBuffer = 4
    /\ loops = <<>>
    /\ managerQueue = 0
    /\ sequences = <<>>
    /\ loads = <<>>
    /\ sources = 0
    /\ connections = <<>>
    /\ log = [o \in {0} |-> <<>>]
    /\ thrown = "none"
    /\ now = 0
    /\ ops = 0
    /\ input \in ParseInputs
    /\ stopCalls = {}
    /\ bufferFile = <<"sounds/a.wav", "sounds/b.wav", "sounds/win.wav">>
    /\ InputIdle
    /\ LifecycleIdle
    /\ UiIdle
    /\ TouchIdle

ParseCall ==
    /\ ops = 0
    /\ SpeakWithSoundEffects(input)

NextParse ==
    \/ ParseCall
    \/ \E q \in 1..Len(sequences) : CallbackFires(q)
    \/ \E q \in 1..Len(sequences) : \E i \in 1..Len(sequences[q].timers) : TimerFires(q, i)
    \/ Tick

SpecParse == InitParse /\ [][NextParse]_vars

----------------------------------------------------------------------------
(* Properties *)

\* an event that dispatches an item: a 'speak' or a 'soundEffect'
IsDispatch(e) == e.kind \in {"speak", "soundEffect"}

Dispatches(events) == SelectSeq(events, IsDispatch)

\* the event that dispatching an item raises
DispatchOf(item, e) ==
    /\ e.name = item.item
    /\ e.kind = (IF item.mediaType = "text" THEN "speak" ELSE "soundEffect")

\* C1: once a later speakWithSoundEffects call has been made, an earlier sequence
\* dispatches nothing more (no speak, no play), whatever callbacks and timers fire.
C1_EarlierQueueCanceled ==
    [][\A q \in 1..Len(sequences) :
          q < Len(sequences) => Dispatches(log'[q]) = Dispatches(log[q])]_vars

\* C2: the dispatches of a sequence are a prefix of its parsed items, in order and
\* each once; dispatches and completions alternate, so an item is dispatched only
\* after the callback of the one before it fired, and at most one is in flight.
C2_InOrderNoOverlap ==
    \A q \in 1..Len(sequences) :
        LET s == sequences[q]
            d == Dispatches(log[q])
        IN  /\ Len(d) <= Len(s.items)
            /\ \A k \in 1..Len(d) : DispatchOf(s.items[k], d[k])
            /\ \A i \in 1..Len(log[q]) : IsDispatch(log[q][i]) <=> (i % 2 = 1)
            /\ s.pending <= 1
            /\ s.pending = Len(log[q]) % 2

\* a sequence whose three items were all dispatched while another sequence was live
C2_Witness ==
    \E q \in 1..Len(sequences) :
        /\ Len(sequences) > 1
        /\ Len(sequences[q].items) = 3
        /\ Len(Dispatches(log[q])) = 3

\* C3: once cancel() has been called on a sequence it is inactive and empty, and
\* no step dispatches from it, the late callback of its in-flight item included.
C3_CancelStopsDispatch ==
    [][\A q \in 1..Len(sequences') :
          sequences'[q].cancelCalled =>
              /\ ~sequences'[q].isPlaying
              /\ sequences'[q].queue = <<>>
              /\ q <= Len(sequences) => Dispatches(log'[q]) = Dispatches(log[q])]_vars

\* cancel() came while an item was in flight, with items left, and the callback of
\* that item has fired since
C3_Witness ==
    \E q \in 1..Len(sequences) :
        LET s == sequences[q]
        IN  /\ s.cancelCalled
            /\ s.eventsAtCancel % 2 = 1
            /\ Len(Dispatches(log[q])) < Len(s.items)
            /\ Len(log[q]) = s.eventsAtCancel + 1
            /\ log[q][Len(log[q])].kind = "ended"
            /\ s.pending = 0

\* C4: at most one sequence is marked playing.
C4_AtMostOneActive ==
    Cardinality({q \in 1..Len(sequences) : sequences[q].isPlaying}) <= 1

\* C5: whatever follows a completion in a sequence is a dispatch that comes at
\* least the spacing later (so never in the same step), and a dispatch is followed
\* by its completion only: for [text, sound, text] the soundEffect lies after the
\* first text's completion and before the second text's dispatch.
C5_SpacingElapses ==
    \A q \in 1..Len(sequences) :
        \A i \in 1..(Len(log[q]) - 1) :
            IF log[q][i].kind = "ended"
            THEN /\ IsDispatch(log[q][i + 1])
                 /\ log[q][i + 1].t >= log[q][i].t + sequences[q].spacing
            ELSE log[q][i + 1].kind = "ended"

\* the queue [text, sound, text] has run to its last dispatch
C5_Witness ==
    /\ input = "You win {{win}} great job"
    /\ Len(sequences) = 1
    /\ Len(log[1]) = 5
    /\ log[1][1].kind = "speak"
    /\ log[1][3].kind = "soundEffect"
    /\ log[1][5].kind = "speak"

\* C6: play of a name that no sound was registered under throws and changes
\* nothing: no source, no soundEffect event, no loop entry, with loop true as
\* with loop false.
C6_PlayMissingFails ==
    \A name \in PlayNames, loop \in BOOLEAN :
        name \notin DOMAIN soundLibrary =>
            LET r == play(Cur, name, [DefaultOptions EXCEPT !.loop = loop], 0)
            IN  /\ r.thrown # "none"
                /\ r.sources = sources
                /\ r.log = log
                /\ r.loops = loops
                /\ r.sequences = sequences

\* a text item made of spaces only: the text run it stands for has no word
Blank(text) == \A i \in 1..Len(text) : SubSeq(text, i, i) = " "

CueTokens(formattedText) ==
    SelectSeq(Split(formattedText), LAMBDA token : MatchCue(token).matched)

\* C7: a narration with n cue markers gives n sound items, in source order, at
\* most n + 1 text items, and no text item for a zero-length text run.
C7_ParseShape ==
    \A q \in 1..Len(sequences) :
        LET items == sequences[q].items
            sounds == SelectSeq(items, LAMBDA it : it.mediaType = "sound")
            texts == SelectSeq(items, LAMBDA it : it.mediaType = "text")
            cues == CueTokens(input)
        IN  /\ Len(sounds) = Len(cues)
            /\ \A k \in 1..Len(sounds) : sounds[k].item = MatchCue(cues[k]).name
            /\ Len(texts) <= Len(cues) + 1
            /\ \A k \in 1..Len(texts) : ~Blank(texts[k].item)

\* C8: "You win {{win}} great job" gives text "You win", sound "win", text
\* "great job"; a text item is its words joined by single spaces, with no leading
\* or trailing whitespace.
C8_ExactItems ==
    \A q \in 1..Len(sequences) :
        LET items == sequences[q].items
        IN  /\ input = "You win {{win}} great job" =>
                /\ Len(items) = 3
                /\ items[1].mediaType = "text" /\ items[1].item = "You win"
                /\ items[2].mediaType = "sound" /\ items[2].item = "win"
                /\ items[3].mediaType = "text" /\ items[3].item = "great job"
            /\ \A k \in 1..Len(items) :
                  items[k].mediaType = "text" =>
                      /\ SubSeq(items[k].item, 1, 1) # " "
                      /\ SubSeq(items[k].item, Len(items[k].item), Len(items[k].item)) # " "

\* a token with marker syntax that is not exactly {{name}}
WellFormedCue(token) ==
    /\ Len(token) > 4
    /\ SubSeq(token, 1, 2) = "{{"
    /\ SubSeq(token, Len(token) - 1, Len(token)) = "}}"
    /\ \A i \in 3..(Len(token) - 2) : SubSeq(token, i, i) \notin {"{", "}"}

Malformed(token) ==
    /\ \E i \in 1..Len(token) : SubSeq(token, i, i) \in {"{", "}"}
    /\ ~WellFormedCue(token)

HasMalformed(formattedText) ==
    \E i \in 1..Len(Split(formattedText)) : Malformed(Split(formattedText)[i])

\* C9: a narration with a malformed cue marker fails at the call: no sequence
\* comes out of it and nothing of it is spoken or played.
C9_MalformedRejected ==
    HasMalformed(input) =>
        /\ managerQueue = 0
        /\ \A q \in 1..Len(sequences) : Dispatches(log[q]) = <<>>

\* C10: the library holds, under each name, exactly the buffer the last completed
\* addSound of that name returned, in every state, whatever else has been called.
C10_LibraryKeepsBuffer ==
    /\ DOMAIN soundLibrary = DOMAIN returned
    /\ \A name \in DOMAIN returned : soundLibrary[name] = returned[name]

\* "win" was loaded twice, and a direct call and a narration raised events
C10_Witness ==
    /\ InLibrary("win")
    /\ returned["win"] = 2
    /\ Len(sequences) > 0
    /\ Len(log[1]) > 0
    /\ Len(log[0]) > 0

\* the entries of ls registered under name
Named(ls, name) == {i \in 1..Len(ls) : ls[i].soundName = name}

\* C11: stopLoop(name) with no loop registered under name (also after one-shot
\* plays of that name) stops nothing, leaves the registry as it was and raises
\* no error; a second stopLoop(name) right after a first changes nothing more.
C11_StopLoopNoOp ==
    [][\A name \in StopNames :
          StopLoop(name) =>
             /\ Named(loops, name) = {} =>
                   /\ loops' = loops
                   /\ stopCalls' = stopCalls
                   /\ thrown' = "none"
             /\ stopLoop(loops', name) = loops'
             /\ stopLoopHandles(loops', name) = {}]_vars

\* a one-shot play of win and a stopLoop call that stopped nothing
C11_Witness ==
    /\ ops = 2
    /\ sources = 1
    /\ log[0][1].name = "win" /\ ~log[0][1].loop
    /\ loops = <<>>
    /\ stopCalls = {}
    /\ thrown = "none"

\* C12: stopLoop(name) stops every registered loop of that name, several of
\* them included, and removes exactly those; the loops of other names stay
\* registered, as they were, and are not stopped.
C12_StopLoopStopsAllOfName ==
    [][\A name \in StopNames :
          StopLoop(name) =>
             /\ loops' = SelectSeq(loops, LAMBDA item : item.soundName # name)
             /\ stopCalls' = stopCalls \cup {loops[i].loopHandle : i \in Named(loops, name)}
             /\ \A i \in 1..Len(loops') :
                    loops'[i].isPlaying /\ loops'[i].loopHandle \notin stopCalls']_vars

\* two win loops stopped by one call while the coin loop stays registered
C12_Witness ==
    /\ stopCalls = {1, 2}
    /\ Len(loops) = 1
    /\ loops[1] = [soundName |-> "coin", loopHandle |-> 3, isPlaying |-> TRUE]
    /\ log[0][1].name = "win" /\ log[0][2].name = "win"

\* C13: a successful play with loop true adds exactly one live entry to the
\* registry, one with loop false leaves the registry as it was; so no stopLoop
\* ever stops the source of a one-shot play.
C13_OnlyLoopsRegistered ==
    [][/\ \A name \in LoopNames, loop \in BOOLEAN :
             (Play(name, loop) /\ thrown' = "none") =>
                loops' = IF loop
                         THEN Append(loops, [soundName |-> name,
                                             loopHandle |-> sources',
                                             isPlaying |-> TRUE])
                         ELSE loops
       /\ \A h \in stopCalls' : log'[0][h].loop]_vars

\* a looping and two one-shot plays of win, then stopLoop: only the loop stopped
C13_Witness ==
    /\ sources = 3
    /\ \A h \in 1..3 : log[0][h].name = "win"
    /\ log[0][1].loop /\ ~log[0][2].loop /\ ~log[0][3].loop
    /\ stopCalls = {1}
    /\ loops = <<>>

\* sequence q has taken an item off its queue that raised no event: the play of
\* that item threw
Aborted(q) ==
    /\ ~sequences[q].cancelCalled
    /\ Len(sequences[q].items) - Len(sequences[q].queue) > Len(Dispatches(log[q]))

\* C14: a sequence that reached a sound cue not in the library is aborted: the
\* error went to the caller of speakWithSoundEffects, no callback or timer of
\* the sequence is left, and the sequence is inactive with an empty queue.
C14_MissingCueAborts ==
    \A q \in 1..Len(sequences) :
        Aborted(q) =>
            /\ ~sequences[q].handedOut
            /\ sequences[q].pending = 0
            /\ sequences[q].timers = <<>>
            /\ ~sequences[q].isPlaying
            /\ sequences[q].queue = <<>>

\* C15: every speakWithSoundEffects call returns its queue and stores it, so
\* the current queue is the one the most recent call created.
C15_EveryCallStored ==
    /\ managerQueue = Len(sequences)
    /\ \A q \in 1..Len(sequences) : sequences[q].handedOut

\* C16: when an await of addSound rejects, the call ends there: the error goes
\* to the caller, no load is started in its place, and the library, with the
\* buffers it holds, is as it was.
C16_FailedLoadChangesNothing ==
    [][(Len(loads') < Len(loads) /\ nextBuffer' = nextBuffer) =>
          /\ thrown' = "load failed"
          /\ \E i \in 1..Len(loads) : loads' = RemoveAt(loads, i)
          /\ soundLibrary' = soundLibrary
          /\ returned' = returned]_vars

\* "win" is registered and a later load has just failed
C16_Witness ==
    /\ thrown = "load failed"
    /\ DOMAIN soundLibrary = {"win"}
    /\ soundLibrary["win"] = 1
    /\ loads = <<>>
    /\ ops = 2

\* C17: a load that completes while others are in flight registers its buffer
\* under its own name and touches no other name and no other load: two loads
\* of different names both end registered in either order of completion, and
\* of two loads of one name the one that completes last is the one registered.
C17_OverlappingLoads ==
    [][nextBuffer' # nextBuffer =>
          \E i \in 1..Len(loads) :
              /\ loads' = RemoveAt(loads, i)
              /\ DOMAIN soundLibrary' = DOMAIN soundLibrary \cup {loads[i].name}
              /\ soundLibrary'[loads[i].name] = nextBuffer
              /\ returned'[loads[i].name] = nextBuffer
              /\ \A n \in DOMAIN soundLibrary \ {loads[i].name} :
                    soundLibrary'[n] = soundLibrary[n]]_vars

\* "coin" has been registered by a load that ended while a load of "win" and a
\* second load of "coin", both begun before that, are still in flight
C17_Witness ==
    /\ DOMAIN soundLibrary = {"coin"}
    /\ soundLibrary["coin"] = 1
    /\ Len(loads) = 2
    /\ loads[1].name = "win" /\ loads[1].startedAt = 1
    /\ loads[2].name = "coin" /\ loads[2].startedAt = 1

\* C18: an addFreesound call whose search or download is rejected, or whose
\* search has no result, ends with a lookup error and registers nothing; one whose
\* search has results loads the preview of the first one, and what ends up in
\* the library under the name is the buffer decoded from that file.
C18_FreesoundFirstResult ==
    [][/\ \A i \in 1..Len(loads), results \in ResultLists :
             JsonResolves(i, results) =>
                /\ soundLibrary' = soundLibrary
                /\ IF results = <<>>
                   THEN thrown' = "LookupError" /\ loads' = RemoveAt(loads, i)
                   ELSE /\ Len(loads') = Len(loads)
                        /\ loads'[i].name = loads[i].name
                        /\ loads'[i].stage = "fetch"
                        /\ loads'[i].file = results[1].preview
       /\ \A i \in 1..Len(loads) :
             LoadFail(i) => soundLibrary' = soundLibrary /\ thrown' = "LookupError"
       /\ \A i \in 1..Len(loads') :
             loads'[i].stage \in {"fetch", "arrayBuffer", "decode"} =>
                /\ loads'[i].results # <<>>
                /\ loads'[i].file = loads'[i].results[1].preview
       /\ nextBuffer' # nextBuffer =>
             \E i \in 1..Len(loads) :
                /\ loads[i].stage = "decode"
                /\ loads' = RemoveAt(loads, i)
                /\ loads[i].name \in DOMAIN soundLibrary'
                /\ soundLibrary'[loads[i].name] = nextBuffer
                /\ bufferFile'[nextBuffer] = loads[i].results[1].preview]_vars

\* C19: a successful play raises exactly one soundEffect event, with the name,
\* pan, volume and loop flag of the call, and a speak call exactly one speak
\* event with its text; the events of a sequence are those of its items, in
\* the order of the items, sounds with the default options.
C19_OneEventPerCall ==
    [][/\ \A name \in PlayNames, options \in PlayOptions :
             (PlayCall(name, options) /\ thrown' = "none") =>
                /\ Len(log'[0]) = Len(log[0]) + 1
                /\ SubSeq(log'[0], 1, Len(log[0])) = log[0]
                /\ LET ev == log'[0][Len(log'[0])]
                   IN  /\ ev.kind = "soundEffect"
                       /\ ev.name = name
                       /\ ev.panValue = options.panValue
                       /\ ev.volume = options.volume
                       /\ ev.loop = options.loop
       /\ \A text \in SpeakTexts :
             SpeakCall(text) =>
                /\ Len(log'[0]) = Len(log[0]) + 1
                /\ SubSeq(log'[0], 1, Len(log[0])) = log[0]
                /\ log'[0][Len(log'[0])].kind = "speak"
                /\ log'[0][Len(log'[0])].name = text
       /\ \A q \in 1..Len(sequences') :
             LET d == Dispatches(log'[q])
                 items == sequences'[q].items
             IN  /\ Len(d) <= Len(items)
                 /\ \A k \in 1..Len(d) :
                       /\ d[k].name = items[k].item
                       /\ IF items[k].mediaType = "text"
                          THEN d[k].kind = "speak"
                          ELSE /\ d[k].kind = "soundEffect"
                               /\ d[k].panValue = 0
                               /\ d[k].volume = 1
                               /\ ~d[k].loop]_vars

\* a muted looping play panned left has been made, and a narration has
\* dispatched its text, its sound and its second text
C19_Witness ==
    /\ Len(log[0]) = 1
    /\ log[0][1].kind = "soundEffect"
    /\ log[0][1].volume = 0 /\ log[0][1].panValue = -1 /\ log[0][1].loop
    /\ Len(sequences) = 1
    /\ Len(Dispatches(log[1])) = 3

\* the seven button names of the virtual controller
ControllerNames == {"a", "b", "Start", "ArrowUp", "ArrowDown", "ArrowLeft", "ArrowRight"}

\* C20: every controllerInput event carries one of the seven button names,
\* whether it came from a key or from a gesture.
C20_SevenButtonNames ==
    \A i \in 1..Len(controllerInputs) : controllerInputs[i] \in ControllerNames

\* C21: handleInput is called only while the state is STATE_GAME_PLAYING; an
\* input that arrives in any other state is not followed by a handleInput call.
C21_HandleInputOnlyPlaying ==
    \A i \in 1..Len(calls) :
        /\ calls[i].fn = "handleInput" => calls[i].at = STATE_GAME_PLAYING
        /\ (calls[i].fn = "input" /\ calls[i].at # STATE_GAME_PLAYING /\ i < Len(calls))
              => calls[i + 1].fn # "handleInput"

\* inputs came while input was requested, during the introduction and while
\* playing; the last one went to handleInput
C21_Witness ==
    /\ \E i \in CallsOf(calls, "input") : calls[i].at = STATE_REQUEST_INPUT
    /\ \E i \in CallsOf(calls, "input") : calls[i].at = STATE_GAME_INTRO_STARTED
    /\ CallsOf(calls, "handleInput") # {}

\* C22: gameIntroduction is called only for a gameSetup call whose promise has
\* resolved, gamePlay only after a gameIntroduction call and an input later
\* than it; for a gameSetup call whose promise rejected there is no
\* gameIntroduction call.
C22_LifecycleOrder ==
    /\ \A i \in CallsOf(calls, "gameIntroduction") :
          \E j \in 1..(i - 1), k \in 1..(i - 1) :
              /\ k < j
              /\ calls[k] = Call("gameSetup", calls[i].arg, calls[k].at)
              /\ calls[j] = Call("setupResolved", calls[i].arg, calls[j].at)
    /\ \A i \in CallsOf(calls, "gamePlay") :
          \E j \in 1..(i - 1), k \in 1..(i - 1) :
              /\ j < k
              /\ calls[j].fn = "gameIntroduction"
              /\ calls[k].fn = "input"
    /\ \A i \in CallsOf(calls, "setupRejected") :
          \A j \in CallsOf(calls, "gameIntroduction") : calls[j].arg # calls[i].arg

\* one gameSetup promise rejected, another resolved, and the game is playing
C22_Witness ==
    /\ CallsOf(calls, "setupRejected") # {}
    /\ CallsOf(calls, "gameIntroduction") # {}
    /\ CallsOf(calls, "gamePlay") # {}

\* the items of a narration gameIntroduction starts
IntroItems == ParseItems(IntroNarration, "null")

\* C24: once gamePlay has been called, no narration started by
\* gameIntroduction dispatches an item.
C24_IntroSilentAfterGamePlay ==
    [][CallsOf(calls, "gamePlay") # {} =>
          \A q \in 1..Len(sequences) :
              sequences[q].items = IntroItems =>
                  Dispatches(log'[q]) = Dispatches(log[q])]_vars

\* C25: the doNext of a spacing timer that fires after cancel() was called on
\* its sequence dispatches nothing and raises no error.
C25_CanceledTimerQuiet ==
    [][\A q \in 1..Len(sequences) :
          \A i \in 1..Len(sequences[q].timers) :
              (TimerFires(q, i) /\ sequences[q].cancelCalled) =>
                  /\ log'[q] = log[q]
                  /\ thrown' = "none"]_vars

\* C26: gameSetup and gameIntroduction are each called at most once.
C26_SetupAndIntroOnce ==
    /\ Cardinality(CallsOf(calls, "gameSetup")) <= 1
    /\ Cardinality(CallsOf(calls, "gameIntroduction")) <= 1

\* C27: GameState.state never decreases, and once it is STATE_GAME_PLAYING it
\* stays STATE_GAME_PLAYING.
C27_StateMovesForward ==
    [][/\ gameState' >= gameState
       /\ gameState = STATE_GAME_PLAYING => gameState' = STATE_GAME_PLAYING]_vars

\* C28: the input that ends the introduction and the one that unlocks audio are
\* not passed to handleInput: every handleInput call is for the input just
\* arrived, and that input arrived after a gamePlay call.
C28_ConsumedInputNotForwarded ==
    /\ \A i \in CallsOf(calls, "handleInput") :
          /\ i > 1
          /\ calls[i - 1] = Call("input", calls[i].arg, calls[i].at)
          /\ \E j \in 1..(i - 2) : calls[j].fn = "gamePlay"
    /\ \A i \in CallsOf(calls, "gamePlay") :
          /\ i > 1
          /\ calls[i - 1].fn = "input"
          /\ i < Len(calls) => calls[i + 1].fn # "handleInput"

\* the input after the one that ended the introduction has gone to handleInput
C28_Witness ==
    /\ Len(calls) >= 3
    /\ calls[Len(calls)].fn = "handleInput"
    /\ calls[Len(calls) - 2].fn = "gamePlay"

\* sequence q is inactive and has dispatched each of its items once, in order
Drained(q) ==
    /\ q <= Len(sequences)
    /\ ~sequences[q].isPlaying
    /\ sequences[q].queue = <<>>
    /\ sequences[q].pending = 0
    /\ sequences[q].timers = <<>>
    /\ Len(Dispatches(log[q])) = Len(sequences[q].items)
    /\ \A k \in 1..Len(sequences[q].items) :
          DispatchOf(sequences[q].items[k], Dispatches(log[q])[k])

\* C23: with every sound loaded and every callback and timer firing, every
\* started sequence that is not canceled ends up inactive, each of its items
\* dispatched exactly once, and stays so: after the callback of its last item
\* nothing more is dispatched.
C23_QueueDrains ==
    <>[](\A q \in 1..Len(sequences) : Drained(q))

\* two narrations that ran side by side have both drained
C23_Witness ==
    /\ Len(sequences) = 2
    /\ Len(sequences[1].items) = 3
    /\ Drained(1)
    /\ Drained(2)

\* the newest n elements of s, oldest first
LastN(s, n) == SubSeq(s, Len(s) - (IF Len(s) < n THEN Len(s) ELSE n) + 1, Len(s))

\* the elements shown since the log was last emptied, one entry per call
SinceClear ==
    SubSeq(shownAll, (IF clears = <<>> THEN 0 ELSE clears[Len(clears)].shown) + 1,
           Len(shownAll))

\* the same, each element at the place of its latest showing only
Recent ==
    LET latest == SelectSeq([i \in 1..Len(SinceClear) |-> i],
                            LAMBDA i : \A j \in (i + 1)..Len(SinceClear) :
                                          SinceClear[j].node # SinceClear[i].node)
    IN  [k \in 1..Len(latest) |-> SinceClear[latest[k]]]

\* C29: the on-screen log holds at most maxElements entries, and they are the
\* most recently shown ones in the order they were shown; as long as every
\* call showed a new element, none is missing while there is room.
C29_LogKeepsNewest ==
    /\ Len(uiLog) <= maxElements
    /\ uiLog = LastN(Recent, Len(uiLog))
    /\ Len(Recent) = Len(SinceClear) => uiLog = LastN(SinceClear, maxElements)

\* with the default of 18, two entries were evicted and a sound entry shown
\* after a narrator entry is still on screen
C29_Witness ==
    /\ maxElements = DefaultMaxElements
    /\ Len(shownAll) = maxElements + 2
    /\ \E i, j \in 1..Len(uiLog) :
          /\ i < j
          /\ uiLog[i].className = "mainAudio"
          /\ uiLog[j].className = "soundEffect"
          /\ uiLog[j].innerText = "sound:  (left)a"

\* C30: a tap gesture is raised only in a touch sequence whose tap timer has
\* not fired and none of whose fingers went further than TAP_MAX_TRAVEL_PIXELS
\* from where it came down.
C30_TapOnlyQuickAndStill ==
    lastGesture.detail \in TapGestures =>
        /\ ~lastGesture.during.tapTimerFired
        /\ ~lastGesture.during.travelled

\* C31: a tap gesture names the number of fingers that took part in its touch
\* sequence: one for oneFingerTap, two for twoFingerTap, three for
\* threeFingerTap; with four or more fingers no tap is raised.
C31_TapReportsFingers ==
    /\ lastGesture.detail = "oneFingerTap" =>
          Cardinality(lastGesture.during.fingers) = 1
    /\ lastGesture.detail = "twoFingerTap" =>
          Cardinality(lastGesture.during.fingers) = 2
    /\ lastGesture.detail = "threeFingerTap" =>
          Cardinality(lastGesture.during.fingers) = 3

\* C32: a touch sequence raises at most one gesture: when a gesture is raised
\* none was raised earlier in its touch sequence, a longPress included.
C32_OneGesturePerSequence ==
    /\ Len(touchSequence.gestures) <= 1
    /\ lastGesture.during.gestures = <<>>

\* a long press was raised and its finger has lifted since, raising nothing
C32_Witness ==
    /\ lastGesture.detail = "longPress"
    /\ lastGesture.during.n = touchSequence.n
    /\ FingersDown = {}

\* C33: with no finger down the tracker is idle, and every pending timer was
\* armed by the touch sequence under way.
C33_IdleWhenNoFinger ==
    /\ FingersDown = {} =>
          /\ ~couldBeTap
          /\ ~couldBeLongPress
          /\ ~couldBeSwipe
          /\ fingersInThisGesture = -1
          /\ gestureTimers = {}
    /\ \A timer \in gestureTimers :
          /\ FingersDown # {}
          /\ timer.armedIn = touchSequence.n

\* the first touch sequence ended in a tap with its three timers pending; the
\* second one is under way, its tap timer fired
C33_Witness ==
    /\ lastGesture.detail = "oneFingerTap"
    /\ lastGesture.during.n = 1
    /\ touchSequence.n = 2
    /\ touchSequence.tapTimerFired
    /\ Cardinality(gestureTimers) = 2

\* the sources that were started: those connected to the output
Started == {h \in 1..sources : connections[h] # <<>>}

\* the soundEffect event of the play that started source h
EventOf(h) == log[0][Cardinality({g \in Started : g <= h})]

\* the sources of the plays made with loop true
LoopingPlays == {h \in Started : EventOf(h).loop}

\* C34: between calls the registry holds exactly one entry for each looping
\* play whose source has not been stopped by stopLoop, in the order they were
\* started; every entry is marked playing and has the name its play was made
\* with, a name of the sound library. No stopped entry stays registered.
C34_RegistryExact ==
    /\ Len(connections) = sources
    /\ Len(log[0]) = Cardinality(Started)
    /\ \A i \in 1..Len(loops) :
          /\ loops[i].isPlaying
          /\ loops[i].loopHandle \in LoopingPlays \ stopCalls
          /\ loops[i].soundName = EventOf(loops[i].loopHandle).name
          /\ loops[i].soundName \in DOMAIN soundLibrary
          /\ \A j \in 1..(i - 1) : loops[j].loopHandle < loops[i].loopHandle
    /\ \A h \in LoopingPlays \ stopCalls :
          \E i \in 1..Len(loops) : loops[i].loopHandle = h

\* a looping play of toString failed, then loops of win and of coin were
\* played, then stopLoop(win)
C34_Witness ==
    /\ sources = 3
    /\ Started = {2, 3}
    /\ log[0][1].name = "win" /\ log[0][1].loop
    /\ log[0][2].name = "coin" /\ log[0][2].loop
    /\ stopCalls = {2}
    /\ loops = <<[soundName |-> "coin", loopHandle |-> 3, isPlaying |-> TRUE]>>

\* the connections cs lead from one node to the next
Linked(cs) == \A i \in 1..(Len(cs) - 1) : cs[i + 1].from = cs[i].to

\* the nodes a linked chain visits, first to last
ChainNodes(cs) == <<cs[1].from>> \o [i \in 1..Len(cs) |-> cs[i].to]

\* C35: a play connects its source, then a gain stage exactly when volume is
\* not 1, then a pan stage exactly when pan is not 0, then the output; with
\* the defaults the source is connected straight to the output.
C35_AudioChain ==
    [][\A name \in PlayNames, options \in PlayOptions :
          (PlayCall(name, options) /\ thrown' = "none") =>
              /\ Len(connections') = sources'
              /\ SubSeq(connections', 1, sources) = connections
              /\ Linked(connections'[sources'])
              /\ ChainNodes(connections'[sources']) =
                     <<AudioNode("source", sources')>>
                     \o (IF options.volume # 1
                         THEN <<AudioNode("gain", options.volume)>> ELSE <<>>)
                     \o (IF options.panValue # 0
                         THEN <<AudioNode("pan", options.panValue)>> ELSE <<>>)
                     \o <<AudioNode("destination", 0)>>]_vars

\* a play with volume 0 and pan -1 went through a gain and a pan stage, one
\* with volume 0 alone through a gain stage only
C35_Witness ==
    /\ Len(connections) = 2
    /\ Len(connections[1]) = 3
    /\ connections[1][2] = Connection(AudioNode("gain", 0), AudioNode("pan", -1))
    /\ Len(connections[2]) = 2
    /\ connections[2][2].from = AudioNode("gain", 0)
    /\ connections[2][2].to = AudioNode("destination", 0)

====
